---------------------------- MODULE Spec2Model ----------------------------
(***************************************************************************)
(* Ticket assignment core of the PyCon25 support-ticket system:            *)
(* PriorityAnalyzer (priority_analyzer.py) and TicketAssignmentSystem      *)
(* (ticket_assignment_system.py).                                          *)
(*                                                                         *)
(* Texts are TLA+ strings, matched character by character the way the      *)
(* regular expressions of the code match them.  The code's floats are      *)
(* modelled by exact rationals (records [n, d] in lowest terms), so that   *)
(* 0.4, 1/3 or 2.2 are the numbers themselves and not roundings of them.   *)
(* Where the code compares two computed scores (the candidates' final      *)
(* scores) the rounding decides the outcome: those are also computed as    *)
(* IEEE-754 doubles, operation by operation, and compared as doubles.      *)
(***************************************************************************)
EXTENDS Integers, Sequences, FiniteSets, TLC

(***************************************************************************)
(* Exact rationals standing for Python floats.                             *)
(***************************************************************************)
RECURSIVE Gcd(_, _)
Gcd(a, b) ==
    IF b = 0 THEN a ELSE Gcd(b, a % b)

Abs(a) ==
    IF a < 0 THEN -a ELSE a

Rat(n, d) ==
    LET s == IF d < 0 THEN -1 ELSE 1
        g == Gcd(Abs(n), Abs(d))
    IN  [n |-> (s * n) \div g, d |-> (s * d) \div g]

RAdd(x, y) ==
    Rat(x.n * y.d + y.n * x.d, x.d * y.d)

RMul(x, y) ==
    Rat(x.n * y.n, x.d * y.d)

RDiv(x, y) ==
    Rat(x.n * y.d, x.d * y.n)

RNeg(x) ==
    [n |-> -x.n, d |-> x.d]

RLess(x, y) ==
    x.n * y.d < y.n * x.d

RLeq(x, y) ==
    x.n * y.d <= y.n * x.d

RMin(x, y) ==
    IF RLess(y, x) THEN y ELSE x

RMax(x, y) ==
    IF RLess(x, y) THEN y ELSE x

(***************************************************************************)
(* Python floats as the interpreter holds them: IEEE-754 binary64 numbers, *)
(* every operation rounded to nearest, ties to even.  A double is a record *)
(* [neg, m, e] of value m * 2^e (negated when neg) whose significand m has *)
(* exactly MantissaBits bits, or is zero.  Significands do not fit TLC's   *)
(* integers: they are little-endian sequences of limbs below LimbBase.     *)
(* The scores compared at line 239 are modelled this way, because the      *)
(* comparison sees the rounded sums and not the exact ones.                *)
(***************************************************************************)
LimbBase ==
    2^14

LimbBits ==
    CHOOSE k \in 1..30 : 2^k = LimbBase

MantissaBits ==
    52 + 1

Limb(N, i) ==
    IF i \in 1..Len(N) THEN N[i] ELSE 0

BigFromInt(n) ==
    <<n % LimbBase, (n \div LimbBase) % LimbBase, n \div (LimbBase * LimbBase)>>

\* Limbs of the number whose columns (limb sums or products, not yet below
\* LimbBase) are cols, with carry c coming in.
RECURSIVE Normalise(_, _)
Normalise(cols, c) ==
    IF cols = <<>>
    THEN IF c = 0 THEN <<>> ELSE <<c % LimbBase>> \o Normalise(<<>>, c \div LimbBase)
    ELSE <<(Head(cols) + c) % LimbBase>>
             \o Normalise(Tail(cols), (Head(cols) + c) \div LimbBase)

BigAdd(a, b) ==
    Normalise([i \in 1..(IF Len(a) > Len(b) THEN Len(a) ELSE Len(b)) |->
                   Limb(a, i) + Limb(b, i)], 0)

\* Sum of a[i] * b[k + 1 - i] over i = 1..n.
RECURSIVE ColumnSum(_, _, _, _)
ColumnSum(a, b, k, n) ==
    IF n = 0 THEN 0
    ELSE Limb(a, n) * Limb(b, k + 1 - n) + ColumnSum(a, b, k, n - 1)

BigMul(a, b) ==
    Normalise([k \in 1..(Len(a) + Len(b) - 1) |-> ColumnSum(a, b, k, Len(a))], 0)

\* N * 2^s
BigShiftLeft(N, s) ==
    [i \in 1..(s \div LimbBits) |-> 0]
        \o Normalise([i \in 1..Len(N) |-> N[i] * 2^(s % LimbBits)], 0)

\* N \div 2^s
BigShiftRight(N, s) ==
    [j \in 1..(Len(N) - (s \div LimbBits)) |->
        (Limb(N, j + (s \div LimbBits)) \div 2^(s % LimbBits))
            + (Limb(N, j + (s \div LimbBits) + 1) % 2^(s % LimbBits))
                  * 2^(LimbBits - (s % LimbBits))]

\* Quotient and remainder of N by a positive k below LimbBase, from the top
\* limb down.
DivStep(top, limb, k) ==
    [q |-> <<(top.r * LimbBase + limb) \div k>> \o top.q,
     r |-> (top.r * LimbBase + limb) % k]

RECURSIVE BigDivSmall(_, _)
BigDivSmall(N, k) ==
    IF N = <<>> THEN [q |-> <<>>, r |-> 0]
    ELSE DivStep(BigDivSmall(Tail(N), k), Head(N), k)

TopLimb(N) ==
    CHOOSE h \in 0..Len(N) :
        /\ h > 0 => N[h] # 0
        /\ \A i \in (h + 1)..Len(N) : N[i] = 0

BitLen(N) ==
    IF TopLimb(N) = 0 THEN 0
    ELSE LimbBits * (TopLimb(N) - 1)
             + (CHOOSE k \in 1..LimbBits : 2^(k - 1) <= N[TopLimb(N)] /\ N[TopLimb(N)] < 2^k)

\* Bit i of N, bit 0 being the lowest.
Bit(N, i) ==
    (Limb(N, (i \div LimbBits) + 1) \div 2^(i % LimbBits)) % 2

\* No bit of N below bit s is set.
LowBitsZero(N, s) ==
    /\ \A i \in 1..(s \div LimbBits) : Limb(N, i) = 0
    /\ Limb(N, (s \div LimbBits) + 1) % 2^(s % LimbBits) = 0

Significand(N) ==
    [i \in 1..((MantissaBits + LimbBits - 1) \div LimbBits) |-> Limb(N, i)]

\* N \div 2^s rounded to nearest, ties to even (s > 0).
RoundedShift(N, s) ==
    IF Bit(N, s - 1) = 1 /\ (~LowBitsZero(N, s - 1) \/ Bit(N, s) = 1)
    THEN BigAdd(BigShiftRight(N, s), <<1>>)
    ELSE BigShiftRight(N, s)

\* A significand that rounding carried to MantissaBits + 1 bits is a power of
\* two: it is halved exactly.
Renormalised(m, e) ==
    IF BitLen(m) > MantissaBits
    THEN [neg |-> FALSE, m |-> Significand(BigShiftRight(m, 1)), e |-> e + 1]
    ELSE [neg |-> FALSE, m |-> Significand(m), e |-> e]

DZero ==
    [neg |-> FALSE, m |-> Significand(<<>>), e |-> 0]

\* The double nearest to N * 2^e.
Round(N, e) ==
    IF BitLen(N) = 0 THEN DZero
    ELSE IF BitLen(N) <= MantissaBits
    THEN [neg |-> FALSE,
          m |-> Significand(BigShiftLeft(N, MantissaBits - BitLen(N))),
          e |-> e - (MantissaBits - BitLen(N))]
    ELSE Renormalised(RoundedShift(N, BitLen(N) - MantissaBits),
                      e + (BitLen(N) - MantissaBits))

IsZero(x) ==
    x.m = DZero.m

\* float(n) for an integer n
DFromInt(n) ==
    IF n < 0 THEN [Round(BigFromInt(-n), 0) EXCEPT !.neg = TRUE]
    ELSE Round(BigFromInt(n), 0)

\* x * y for doubles that are not negative
DMul(x, y) ==
    Round(BigMul(x.m, y.m), x.e + y.e)

\* x + y for doubles that are not negative
DAdd(x, y) ==
    IF IsZero(x) THEN y
    ELSE IF IsZero(y) THEN x
    ELSE IF x.e >= y.e THEN Round(BigAdd(BigShiftLeft(x.m, x.e - y.e), y.m), y.e)
    ELSE Round(BigAdd(x.m, BigShiftLeft(y.m, y.e - x.e)), x.e)

\* The quotient bits of N by k with one more bit below them that is set when
\* the division left a remainder.
WithSticky(qr) ==
    BigAdd(BigShiftLeft(qr.q, 1), <<IF qr.r = 0 THEN 0 ELSE 1>>)

\* x / k for a double x that is not negative and an integer 0 < k < LimbBase
DDivInt(x, k) ==
    Round(WithSticky(BigDivSmall(BigShiftLeft(x.m, 2 * LimbBits), k)),
          x.e - 2 * LimbBits - 1)

\* The literal or quotient a / b of two integers, 0 <= a, 0 < b < LimbBase
DQuot(a, b) ==
    DDivInt(DFromInt(a), b)

RECURSIVE LimbsLess(_, _, _)
LimbsLess(a, b, i) ==
    IF i = 0 THEN FALSE
    ELSE IF a[i] # b[i] THEN a[i] < b[i]
    ELSE LimbsLess(a, b, i - 1)

MagnitudeLess(x, y) ==
    IF IsZero(y) THEN FALSE
    ELSE IF IsZero(x) THEN TRUE
    ELSE IF x.e # y.e THEN x.e < y.e
    ELSE LimbsLess(x.m, y.m, Len(x.m))

\* x < y
DLess(x, y) ==
    IF x.neg /\ y.neg THEN MagnitudeLess(y, x)
    ELSE IF x.neg THEN ~(IsZero(x) /\ IsZero(y))
    ELSE IF y.neg THEN FALSE
    ELSE MagnitudeLess(x, y)

DLeq(x, y) ==
    ~DLess(y, x)

DMin(x, y) ==
    IF DLess(y, x) THEN y ELSE x

DMax(x, y) ==
    IF DLess(x, y) THEN y ELSE x

(***************************************************************************)
(* Strings: str.lower(), and the \b of Python's re module.                 *)
(***************************************************************************)
Char(s, i) ==
    SubSeq(s, i, i)

AsciiUpper ==
    "ABCDEFGHIJKLMNOPQRSTUVWXYZ"

AsciiLower ==
    "abcdefghijklmnopqrstuvwxyz"

Digits ==
    "0123456789"

WordChars ==
    LET w == AsciiLower \o AsciiUpper \o Digits \o "_"
    IN  {Char(w, i) : i \in 1..Len(w)}

LowerOf ==
    [c \in {Char(AsciiUpper, i) : i \in 1..Len(AsciiUpper)} |->
        Char(AsciiLower, CHOOSE i \in 1..Len(AsciiUpper) : Char(AsciiUpper, i) = c)]

\* str.lower() on ASCII text: the text itself when it has no upper-case letter,
\* and by halves otherwise.
HasUpper(s) ==
    \E i \in 1..Len(s) : Char(s, i) \in DOMAIN LowerOf

RECURSIVE lower(_)
lower(s) ==
    IF ~HasUpper(s) THEN s
    ELSE IF Len(s) = 1 THEN (IF s \in DOMAIN LowerOf THEN LowerOf[s] ELSE s)
    ELSE LET h == Len(s) \div 2
         IN  lower(SubSeq(s, 1, h)) \o lower(SubSeq(s, h + 1, Len(s)))

\* WordBoundary that holds at every offset, as if the pattern had no \b: a
\* keyword then matches inside longer words.  C25 fails.
WordBoundary_Anywhere(text, p) ==
    TRUE

\* \b at offset p of text: exactly one of the characters before and after
\* the offset is a word character (the ends of the text count as non-word).
WordBoundary(text, p) ==
    (p >= 1 /\ Char(text, p) \in WordChars)
        # (p < Len(text) /\ Char(text, p + 1) \in WordChars)

\* re.search(r'\b' + re.escape(kw) + r'\b', text)
SearchWholeWord(kw, text) ==
    \E i \in 1..(Len(text) - Len(kw) + 1) :
        /\ SubSeq(text, i, i + Len(kw) - 1) = kw
        /\ WordBoundary(text, i - 1)
        /\ WordBoundary(text, i + Len(kw) - 1)

(***************************************************************************)
(* priority_analyzer.py                                                    *)
(***************************************************************************)
PriorityLevel ==
    <<"CRITICAL", "HIGH", "MEDIUM", "LOW">>

\* PriorityLevel.value
LevelValue(level) ==
    CHOOSE i \in 1..Len(PriorityLevel) : PriorityLevel[i] = level

\* Keyword tables; weights and multipliers are written in tenths
\* (<<"down", 100>> is "down": 10.0, <<"future", 5>> is "future": 0.5).
Tenths(k) ==
    Rat(k, 10)

urgency_keywords ==
    [ CRITICAL |-> <<
          <<"down", 100>>, <<"outage", 100>>, <<"crashed", 90>>, <<"unreachable", 80>>,
          <<"offline", 80>>, <<"not responding", 80>>, <<"completely broken", 90>>,
          <<"total failure", 100>>, <<"system failure", 90>>,
          <<"service unavailable", 90>>, <<"cannot access", 70>>,
          <<"all users affected", 80>>, <<"widespread", 70>>, <<"business critical", 90>>,
          <<"production down", 100>>, <<"emergency", 100>>, <<"urgent", 80>>,
          <<"immediately", 80>>, <<"critical", 90>>, <<"severe", 80>>,
          <<"catastrophic", 100>>, <<"security breach", 100>>, <<"hacked", 100>>,
          <<"malware", 90>>, <<"virus", 80>>, <<"data breach", 100>>,
          <<"unauthorized access", 90>>, <<"compromised", 90>>, <<"server down", 90>>,
          <<"network down", 90>>, <<"database down", 100>>, <<"backup failed", 80>>,
          <<"corruption", 80>>, <<"data loss", 90>> >>,
      HIGH |-> <<
          <<"broken", 60>>, <<"failing", 60>>, <<"error", 50>>, <<"problems", 40>>,
          <<"issues", 40>>, <<"not working", 60>>, <<"malfunctioning", 60>>,
          <<"stuck", 50>>, <<"frozen", 60>>, <<"slow", 40>>, <<"performance", 40>>,
          <<"timeout", 50>>, <<"intermittent", 50>>, <<"frequent", 50>>,
          <<"multiple users", 50>>, <<"department affected", 60>>,
          <<"productivity impact", 60>>, <<"blocking", 60>>, <<"prevents work", 60>>,
          <<"deadline", 70>>, <<"presentation", 60>>, <<"meeting", 50>>, <<"client", 60>>,
          <<"customer", 60>>, <<"important", 50>>, <<"asap", 60>>, <<"soon", 40>>,
          <<"today", 50>>, <<"tomorrow", 60>>, <<"cannot login", 60>>,
          <<"access denied", 60>>, <<"locked out", 60>>, <<"authentication", 50>>,
          <<"permissions", 40>>, <<"hardware failure", 70>>, <<"hardware", 40>>,
          <<"device", 30>>, <<"laptop", 30>>, <<"printer", 30>> >>,
      MEDIUM |-> <<
          <<"help", 20>>, <<"assistance", 20>>, <<"support", 20>>, <<"question", 20>>,
          <<"how to", 20>>, <<"configure", 20>>, <<"setup", 20>>, <<"install", 20>>,
          <<"update", 20>>, <<"upgrade", 20>>, <<"request", 20>>, <<"need", 20>>,
          <<"would like", 20>>, <<"minor", 10>>, <<"small", 10>>, <<"quick", 20>>,
          <<"whenever convenient", 10>>, <<"next week", 10>>, <<"training", 20>>,
          <<"documentation", 20>>, <<"clarification", 20>>, <<"guidance", 20>>,
          <<"maintenance", 20>>, <<"routine", 10>>, <<"scheduled", 10>>, <<"planned", 10>> >>,
      LOW |-> <<
          <<"enhancement", 10>>, <<"feature request", 10>>, <<"improvement", 10>>,
          <<"suggestion", 10>>, <<"optimization", 10>>, <<"nice to have", 5>>,
          <<"when possible", 5>>, <<"future", 5>>, <<"eventually", 5>>, <<"cosmetic", 5>>,
          <<"aesthetic", 5>>, <<"convenience", 10>>, <<"preference", 5>>,
          <<"general", 10>>, <<"information", 10>>, <<"inquiry", 10>>, <<"feedback", 10>> >> ]

impact_multipliers ==
    << <<"all users", 20>>, <<"entire", 20>>, <<"whole", 20>>, <<"company", 20>>,
       <<"organization", 20>>, <<"everyone", 20>>, <<"multiple departments", 18>>,
       <<"department", 15>>, <<"team", 13>>, <<"group", 13>>, <<"several users", 14>>,
       <<"many users", 14>>, <<"revenue", 25>>, <<"business", 20>>, <<"production", 25>>,
       <<"customer", 20>>, <<"client", 20>>, <<"public", 20>>, <<"external", 18>>,
       <<"reputation", 20>>, <<"brand", 20>>, <<"compliance", 22>>, <<"audit", 20>>,
       <<"legal", 22>>, <<"regulatory", 22>>, <<"now", 18>>, <<"immediately", 20>>,
       <<"asap", 18>>, <<"urgent", 18>>, <<"today", 15>>, <<"this morning", 16>>,
       <<"right now", 20>>, <<"before", 15>>, <<"deadline", 18>>, <<"meeting", 14>>,
       <<"presentation", 16>>, <<"demo", 15>>, <<"again", 13>>, <<"repeatedly", 15>>,
       <<"frequently", 14>>, <<"constantly", 16>>, <<"always", 14>>, <<"continuous", 15>>,
       <<"ongoing", 14>>, <<"persistent", 14>> >>

skill_keywords ==
    [ Networking |-> <<
          "vpn", "network", "networking", "router", "switch", "firewall", "dns", "dhcp",
          "tcp", "ip", "subnet", "vlan", "wifi", "wireless", "connection", "connectivity",
          "ping", "traceroute", "bandwidth" >>,
      Linux_Administration |-> <<
          "linux", "ubuntu", "centos", "redhat", "bash", "shell", "terminal", "ssh",
          "sudo", "chmod", "chown", "cron", "systemd", "apache", "nginx", "mysql",
          "postgresql", "server", "unix" >>,
      Cloud_AWS |-> <<
          "aws", "amazon", "ec2", "s3", "cloudformation", "lambda", "rds", "vpc",
          "cloudwatch", "iam", "route53", "elb", "auto scaling", "azure", "cloud", "hosting" >>,
      VPN_Troubleshooting |-> <<
          "vpn", "tunnel", "ipsec", "l2tp", "pptp", "openvpn", "remote access",
          "site-to-site", "authentication", "concentrator", "client", "endpoint" >>,
      Hardware_Diagnostics |-> <<
          "hardware", "diagnostic", "memory", "ram", "cpu", "disk", "ssd", "hdd",
          "motherboard", "power supply", "fan", "temperature", "bios", "uefi", "boot",
          "POST" >>,
      Windows_Server_2022 |-> <<
          "windows server", "server 2022", "server 2019", "server 2016", "iis", "hyper-v",
          "powershell", "registry", "event viewer", "services", "roles", "features" >>,
      Active_Directory |-> <<
          "active directory", "ad", "domain controller", "dc", "group policy", "gpo",
          "ldap", "kerberos", "ntlm", "forest", "domain", "ou", "user account",
          "computer account" >>,
      Virtualization_VMware |-> <<
          "vmware", "vsphere", "vcenter", "esxi", "virtual machine", "vm", "hypervisor",
          "virtualization", "snapshot", "vmotion", "ha", "drs" >>,
      Software_Licensing |-> <<
          "license", "licensing", "activation", "key", "volume licensing", "cal",
          "subscription", "office 365", "microsoft 365" >>,
      Network_Security |-> <<
          "security", "firewall", "intrusion", "malware", "antivirus", "threat",
          "vulnerability", "patch", "encryption", "certificate", "ssl", "tls" >>,
      Database_SQL |-> <<
          "database", "sql", "mysql", "postgresql", "oracle", "sql server", "query",
          "table", "index", "backup", "restore", "replication" >>,
      Firewall_Configuration |-> <<
          "firewall", "iptables", "pfsense", "checkpoint", "fortigate", "cisco asa",
          "rules", "acl", "port", "protocol", "block", "allow" >>,
      Identity_Management |-> <<
          "identity", "sso", "saml", "oauth", "ldap", "authentication", "authorization",
          "mfa", "2fa", "identity provider", "federation" >>,
      SaaS_Integrations |-> <<
          "saas", "integration", "api", "webhook", "connector", "salesforce", "servicenow",
          "slack", "teams", "sharepoint", "onedrive" >>,
      Microsoft_365 |-> <<
          "microsoft 365", "office 365", "outlook", "word", "excel", "powerpoint", "teams",
          "sharepoint", "onedrive", "exchange", "azure ad" >>,
      SharePoint_Online |-> <<
          "sharepoint", "sharepoint online", "site collection", "document library", "list",
          "workflow", "permissions", "search", "content type" >>,
      PowerShell_Scripting |-> <<
          "powershell", "script", "cmdlet", "pipeline", "automation", "dsc", "remoting",
          "ise", "gallery", "module" >>,
      Laptop_Repair |-> <<
          "laptop", "notebook", "screen", "keyboard", "touchpad", "battery", "charger",
          "adapter", "hinge", "repair" >>,
      Printer_Support |-> <<
          "printer", "printing", "toner", "ink", "paper jam", "queue", "driver", "spooler",
          "network printer" >> ]

_find_keyword_in_text(keyword, text) ==
    SearchWholeWord(lower(keyword), lower(text))

\* MaxScore that takes the score of the most urgent level that has one: C17
\* fails.
MaxScore_OfMostUrgent(scores) ==
    IF \A l \in DOMAIN scores : scores[l].n = 0 THEN Rat(0, 1)
    ELSE scores[PriorityLevel[CHOOSE i \in 1..Len(PriorityLevel) :
                    /\ scores[PriorityLevel[i]].n # 0
                    /\ \A j \in 1..(i - 1) : scores[PriorityLevel[j]].n = 0]]

\* max(scores.values())
MaxScore(scores) ==
    CHOOSE m \in {scores[l] : l \in DOMAIN scores} :
        \A l \in DOMAIN scores : RLeq(scores[l], m)

\* FirstLevelWith that keeps the last level whose score is max_score: C15 fails.
FirstLevelWith_LastOfTies(scores, max_score) ==
    PriorityLevel[CHOOSE i \in 1..Len(PriorityLevel) :
        /\ scores[PriorityLevel[i]] = max_score
        /\ \A j \in (i + 1)..Len(PriorityLevel) : scores[PriorityLevel[j]] # max_score]

\* The first level, in the order of the enumeration, whose score is max_score.
FirstLevelWith(scores, max_score) ==
    PriorityLevel[CHOOSE i \in 1..Len(PriorityLevel) :
        /\ scores[PriorityLevel[i]] = max_score
        /\ \A j \in 1..(i - 1) : scores[PriorityLevel[j]] # max_score]

\* _determine_winning_priority without the default of lines 312-313: C16 fails.
_determine_winning_priority_NoDefault(scores) ==
    FirstLevelWith(scores, MaxScore(scores))

_determine_winning_priority(scores) ==
    IF MaxScore(scores).n = 0 THEN "MEDIUM"
    ELSE FirstLevelWith(scores, MaxScore(scores))

RECURSIVE SumWeights(_)
SumWeights(entries) ==
    IF entries = <<>> THEN Rat(0, 1)
    ELSE RAdd(Tenths(Head(entries)[2]), SumWeights(Tail(entries)))

\* MaxMultiplier that multiplies the matching multipliers together: C18 fails.
RECURSIVE MaxMultiplier_Product(_, _)
MaxMultiplier_Product(entries, acc) ==
    IF entries = <<>> THEN acc
    ELSE MaxMultiplier_Product(Tail(entries), RMul(acc, Tenths(Head(entries)[2])))

RECURSIVE MaxMultiplier(_, _)
MaxMultiplier(entries, acc) ==
    IF entries = <<>> THEN acc
    ELSE MaxMultiplier(Tail(entries), RMax(acc, Tenths(Head(entries)[2])))

\* The urgency keywords of one level found in the text, in table order
\* (lines 263-267).
MatchedEntries(level, full_text) ==
    SelectSeq(urgency_keywords[level],
              LAMBDA e : _find_keyword_in_text(e[1], full_text))

MatchedByLevel(full_text) ==
    [l \in {PriorityLevel[i] : i \in 1..Len(PriorityLevel)} |->
        MatchedEntries(l, full_text)]

Keywords(entries) ==
    [i \in 1..Len(entries) |-> entries[i][1]]

\* ImpactMultiplier that finds no impact phrase: the multiplier stays 1.0.
\* C14 fails.
ImpactMultiplier_NeverApplied(full_text) ==
    Rat(1, 1)

\* impact_multiplier after the loop of lines 270-272.
ImpactMultiplier(full_text) ==
    MaxMultiplier(SelectSeq(impact_multipliers,
                            LAMBDA e : _find_keyword_in_text(e[1], full_text)),
                  Rat(1, 1))

\* FinalScores that scales the CRITICAL score only: C26 fails.
FinalScores_CriticalOnly(matched, impact_multiplier) ==
    [l \in DOMAIN matched |->
        IF l = "CRITICAL" THEN RMul(SumWeights(matched[l]), impact_multiplier)
        ELSE SumWeights(matched[l])]

\* final_scores (lines 275-278).
FinalScores(matched, impact_multiplier) ==
    [l \in DOMAIN matched |-> RMul(SumWeights(matched[l]), impact_multiplier)]

\* PriorityResult that lists the matched keywords from LOW up to CRITICAL:
\* C24 fails.
PriorityResult_LowFirst(matched, final_scores, winning_priority) ==
    [priority_level |-> winning_priority,
     priority_score |-> final_scores[winning_priority],
     matched_keywords |-> Keywords(matched.LOW) \o Keywords(matched.MEDIUM)
                            \o Keywords(matched.HIGH) \o Keywords(matched.CRITICAL)]

\* The PriorityResult (lines 281-294), without its rationale text.
PriorityResult(matched, final_scores, winning_priority) ==
    [priority_level |-> winning_priority,
     priority_score |-> final_scores[winning_priority],
     matched_keywords |-> Keywords(matched.CRITICAL) \o Keywords(matched.HIGH)
                            \o Keywords(matched.MEDIUM) \o Keywords(matched.LOW)]

WinningResult(matched, final_scores) ==
    PriorityResult(matched, final_scores, _determine_winning_priority(final_scores))

AnalyzeText(full_text, impact_multiplier) ==
    WinningResult(MatchedByLevel(full_text),
                  FinalScores(MatchedByLevel(full_text), impact_multiplier))

analyze_priority(title, description) ==
    AnalyzeText(lower(title \o " " \o description),
                ImpactMultiplier(lower(title \o " " \o description)))

(***************************************************************************)
(* ticket_assignment_system.py                                             *)
(***************************************************************************)
\* Number of keywords of the list that occur in full_text as whole words
\* (lines 290-293).
RECURSIVE KeywordMatches(_, _)
KeywordMatches(keywords, full_text) ==
    IF keywords = <<>> THEN 0
    ELSE (IF SearchWholeWord(lower(Head(keywords)), full_text) THEN 1 ELSE 0)
             + KeywordMatches(Tail(keywords), full_text)

\* KeywordsOfSkill that gives an unknown skill the keywords of Networking:
\* C20 fails.
KeywordsOfSkill_UnknownIsNetworking(skill_name) ==
    IF skill_name \in DOMAIN skill_keywords THEN skill_keywords[skill_name]
    ELSE skill_keywords.Networking

\* self.skill_keywords.get(skill_name, [])
KeywordsOfSkill(skill_name) ==
    IF skill_name \in DOMAIN skill_keywords THEN skill_keywords[skill_name] ELSE <<>>

\* AddSkill without the cap min(keyword_matches / 3, 1.0): C19 fails.
AddSkill_Uncapped(totals, skill_level, keyword_matches) ==
    IF keyword_matches > 0
    THEN [total_score |->
              RAdd(totals.total_score,
                   RMul(Rat(skill_level, 10), Rat(keyword_matches, 3))),
          matched_skills |-> totals.matched_skills + 1]
    ELSE totals

\* Lines 295-299: what one skill with keyword_matches hits adds to the totals.
AddSkill(totals, skill_level, keyword_matches) ==
    IF keyword_matches > 0
    THEN [total_score |->
              RAdd(totals.total_score,
                   RMul(Rat(skill_level, 10), RMin(Rat(keyword_matches, 3), Rat(1, 1)))),
          matched_skills |-> totals.matched_skills + 1]
    ELSE totals

\* The loop over agent_skills.items() (lines 285-299).
RECURSIVE SkillTotals(_, _)
SkillTotals(items, full_text) ==
    IF items = <<>> THEN [total_score |-> Rat(0, 1), matched_skills |-> 0]
    ELSE AddSkill(SkillTotals(SubSeq(items, 1, Len(items) - 1), full_text),
                  items[Len(items)][2],
                  KeywordMatches(KeywordsOfSkill(items[Len(items)][1]), full_text))

\* NormalizedScore that returns total_score as it is, neither averaged nor
\* capped: C10 fails.
NormalizedScore_TotalOnly(totals) ==
    IF totals.matched_skills = 0 THEN Rat(0, 1)
    ELSE totals.total_score

\* Lines 301-305.
NormalizedScore(totals) ==
    IF totals.matched_skills = 0 THEN Rat(0, 1)
    ELSE RMin(RDiv(totals.total_score, Rat(totals.matched_skills, 1)), Rat(1, 1))

_calculate_skill_match(ticket, agent) ==
    NormalizedScore(SkillTotals(agent.skills,
                                lower(ticket.title) \o " " \o lower(ticket.description)))

\* The same computation in the doubles the interpreter computes it in:
\* (skill_level / 10) * min(keyword_matches / 3, 1.0), added to total_score
\* (lines 295-299).
FloatAddSkill(totals, skill_level, keyword_matches) ==
    IF keyword_matches > 0
    THEN [total_score |->
              DAdd(totals.total_score,
                   DMul(DQuot(skill_level, 10),
                        DMin(DQuot(keyword_matches, 3), DFromInt(1)))),
          matched_skills |-> totals.matched_skills + 1]
    ELSE totals

RECURSIVE FloatSkillTotals(_, _)
FloatSkillTotals(items, full_text) ==
    IF items = <<>> THEN [total_score |-> DFromInt(0), matched_skills |-> 0]
    ELSE FloatAddSkill(FloatSkillTotals(SubSeq(items, 1, Len(items) - 1), full_text),
                       items[Len(items)][2],
                       KeywordMatches(KeywordsOfSkill(items[Len(items)][1]), full_text))

\* min(total_score / matched_skills, 1.0), or 0.0 (lines 301-305).
FloatNormalizedScore(totals) ==
    IF totals.matched_skills = 0 THEN DFromInt(0)
    ELSE DMin(DDivInt(totals.total_score, totals.matched_skills), DFromInt(1))

FloatSkillMatch(ticket, agent) ==
    FloatNormalizedScore(FloatSkillTotals(agent.skills,
                             lower(ticket.title) \o " " \o lower(ticket.description)))

(***************************************************************************)
(* The datasets assign_tickets is run on: every list of at most MaxAgents  *)
(* agents and at most MaxTickets tickets drawn from the profiles and texts *)
(* below, with identifiers that are unique within a list.                  *)
(***************************************************************************)
MaxAgents ==
    2

MaxTickets ==
    3

MaxCalls ==
    2

TicketTexts ==
    << [title |-> "Production server down",
        description |-> "Emergency: all users cannot access the database"],
       [title |-> "VPN connection failing",
        description |-> "Network router and firewall issues for client"],
       [title |-> "Printer error",
        description |-> "Printer is stuck"],
       [title |-> "General inquiry",
        description |-> "Feedback on the new portal"] >>

AgentProfiles ==
    << [name |-> "Alice", skills |-> << <<"Networking", 10>>, <<"VPN_Troubleshooting", 7>> >>,
        availability_status |-> "Available", experience_level |-> 20, current_load |-> 7],
       [name |-> "Bob", skills |-> << <<"Printer_Support", 8>>, <<"Mainframe_COBOL", 5>> >>,
        availability_status |-> "Available", experience_level |-> 3, current_load |-> 0],
       [name |-> "Carol", skills |-> << <<"Database_SQL", 8>>, <<"Linux_Administration", 6>> >>,
        availability_status |-> "Busy", experience_level |-> 12, current_load |-> 2],
       [name |-> "Erin", skills |-> << <<"Network_Security", 9>> >>,
        availability_status |-> "On Leave", experience_level |-> 6, current_load |-> 1] >>

TicketId(i) ==
    "TKT-00" \o ToString(i)

AgentId(i) ==
    "agent_00" \o ToString(i)

TicketLists ==
    UNION {{[i \in 1..n |-> [ticket_id |-> TicketId(i),
                             title |-> TicketTexts[f[i]].title,
                             description |-> TicketTexts[f[i]].description]] :
               f \in [1..n -> 1..Len(TicketTexts)]} : n \in 0..MaxTickets}

AgentLists ==
    UNION {{[i \in 1..n |-> [agent_id |-> AgentId(i),
                             name |-> AgentProfiles[f[i]].name,
                             skills |-> AgentProfiles[f[i]].skills,
                             availability_status |-> AgentProfiles[f[i]].availability_status,
                             experience_level |-> AgentProfiles[f[i]].experience_level,
                             current_load |-> AgentProfiles[f[i]].current_load]] :
               f \in [1..n -> 1..Len(AgentProfiles)]} : n \in 0..MaxAgents}

PoolDatasets ==
    {[agents |-> a, tickets |-> t] : a \in AgentLists, t \in TicketLists}

\* The example tickets of test_specific_examples with their expected levels.
SpecificExamples ==
    << [title |-> "Production server down",
        description |-> "The main production server is completely down and all users are affected.",
        expected |-> "CRITICAL"],
       [title |-> "Printer not working",
        description |-> "The office printer is broken and needs repair.",
        expected |-> "HIGH"],
       [title |-> "How to setup email",
        description |-> "New employee needs help setting up their email account.",
        expected |-> "MEDIUM"],
       [title |-> "Feature request",
        description |-> "Would be nice to have a dark mode theme when possible.",
        expected |-> "LOW"],
       [title |-> "Critical security breach",
        description |-> "We have detected unauthorized access to our database. Immediate action required.",
        expected |-> "CRITICAL"] >>

\* Scenario C: one Network_Security agent and one ticket that mentions
\* "security breach" and "unauthorized access" (the fifth example ticket).
ScenarioC ==
    [agents |-> << [agent_id |-> AgentId(1), name |-> "Sam",
                    skills |-> << <<"Network_Security", 9>> >>,
                    availability_status |-> "Available",
                    experience_level |-> 10, current_load |-> 0] >>,
     tickets |-> << [ticket_id |-> TicketId(1),
                     title |-> SpecificExamples[5].title,
                     description |-> SpecificExamples[5].description] >>]

\* Two agents whose composite scores are equal as real numbers
\* (0.4 * 1/30 + 0.2 * 1/15 = 0.4 * 2/30) and one ticket that mentions a
\* single Networking keyword, once as an emergency and once as a routine
\* request.
TiedAgents ==
    << [agent_id |-> AgentId(1), name |-> "Nora",
        skills |-> << <<"Networking", 1>> >>,
        availability_status |-> "Available", experience_level |-> 1, current_load |-> 0],
       [agent_id |-> AgentId(2), name |-> "Omar",
        skills |-> << <<"Networking", 2>> >>,
        availability_status |-> "Available", experience_level |-> 0, current_load |-> 0] >>

TiedTexts ==
    << [title |-> "VPN emergency", description |-> "The VPN is needed immediately"],
       [title |-> "VPN setup", description |-> "Set up the VPN on a new laptop"] >>

TiedDatasets ==
    {[agents |-> TiedAgents,
      tickets |-> << [ticket_id |-> TicketId(1), title |-> TiedTexts[i].title,
                      description |-> TiedTexts[i].description] >>] :
        i \in 1..Len(TiedTexts)}

Datasets ==
    PoolDatasets \cup {ScenarioC} \cup TiedDatasets

\* analyze_priority and _calculate_skill_match are pure: their results on the
\* texts and skills above are computed once and looked up afterwards.
TextOf(ticket) ==
    [title |-> ticket.title, description |-> ticket.description]

PriorityTable ==
    [t \in {TicketTexts[i] : i \in 1..Len(TicketTexts)} |->
        analyze_priority(t.title, t.description)]

PriorityOf(ticket) ==
    IF TextOf(ticket) \in DOMAIN PriorityTable THEN PriorityTable[TextOf(ticket)]
    ELSE analyze_priority(ticket.title, ticket.description)

SkillTable ==
    [t \in {TicketTexts[i] : i \in 1..Len(TicketTexts)},
     s \in {AgentProfiles[i].skills : i \in 1..Len(AgentProfiles)} |->
        _calculate_skill_match(t, [skills |-> s])]

SkillMatchOf(ticket, agent) ==
    IF <<TextOf(ticket), agent.skills>> \in DOMAIN SkillTable
    THEN SkillTable[TextOf(ticket), agent.skills]
    ELSE _calculate_skill_match(ticket, agent)

\* KeyLess with the sign of the score forgotten (key (value, +score)): C6 fails.
KeyLess_AscendingScore(a, b) ==
    \/ LevelValue(a.priority_level) < LevelValue(b.priority_level)
    \/ /\ a.priority_level = b.priority_level
       /\ RLess(a.priority_score, b.priority_score)

\* _prioritize_tickets: the sort key (priority_level.value, -priority_score).
KeyLess(a, b) ==
    \/ LevelValue(a.priority_level) < LevelValue(b.priority_level)
    \/ /\ a.priority_level = b.priority_level
       /\ RLess(b.priority_score, a.priority_score)

\* InsertByKey as if the tickets were kept in a dict keyed by the sort key: a
\* ticket whose key ties with one already placed is lost.  C4 fails.
RECURSIVE InsertByKey_KeyedByPriority(_, _)
InsertByKey_KeyedByPriority(sorted, x) ==
    IF sorted = <<>> THEN <<x>>
    ELSE IF KeyLess(x[2], Head(sorted)[2]) THEN <<x>> \o sorted
    ELSE IF ~KeyLess(Head(sorted)[2], x[2]) THEN sorted
    ELSE <<Head(sorted)>> \o InsertByKey_KeyedByPriority(Tail(sorted), x)

\* list.sort is stable: an element goes before the first element whose key
\* is strictly greater, and after every element it ties with.
RECURSIVE InsertByKey(_, _)
InsertByKey(sorted, x) ==
    IF sorted = <<>> THEN <<x>>
    ELSE IF KeyLess(x[2], Head(sorted)[2]) THEN <<x>> \o sorted
    ELSE <<Head(sorted)>> \o InsertByKey(Tail(sorted), x)

RECURSIVE StableSort(_)
StableSort(ticket_priorities) ==
    IF ticket_priorities = <<>> THEN <<>>
    ELSE InsertByKey(StableSort(SubSeq(ticket_priorities, 1, Len(ticket_priorities) - 1)),
                     ticket_priorities[Len(ticket_priorities)])

\* [ticket for ticket, _ in ticket_priorities] (line 180).
TicketsOf(ticket_priorities) ==
    [i \in 1..Len(ticket_priorities) |-> ticket_priorities[i][1]]

_prioritize_tickets(tickets) ==
    TicketsOf(StableSort([k \in 1..Len(tickets) |->
                             <<tickets[k], PriorityOf(tickets[k])>>]))

max_reasonable_load ==
    8

_get_priority_multiplier(priority_level) ==
    CASE priority_level = "CRITICAL" -> Rat(1, 1)
      [] priority_level = "HIGH" -> Rat(8, 10)
      [] priority_level = "MEDIUM" -> Rat(6, 10)
      [] priority_level = "LOW" -> Rat(4, 10)
      [] OTHER -> Rat(6, 10)

\* " ".join(rationale_parts)
RECURSIVE JoinWithSpaces(_)
JoinWithSpaces(parts) ==
    IF Len(parts) = 0 THEN ""
    ELSE IF Len(parts) = 1 THEN parts[1]
    ELSE parts[1] \o " " \o JoinWithSpaces(Tail(parts))

SkillPart(skill_score) ==
    IF RLess(Rat(7, 10), skill_score) THEN "based on excellent skill match"
    ELSE IF RLess(Rat(4, 10), skill_score) THEN "based on good skill match"
    ELSE IF RLess(Rat(1, 10), skill_score) THEN "based on partial skill match"
    ELSE "due to availability"

ExperiencePart(experience_level) ==
    IF experience_level >= 10
    THEN <<"and high experience level (" \o ToString(experience_level) \o " years)">>
    ELSE IF experience_level >= 5
    THEN <<"and good experience (" \o ToString(experience_level) \o " years)">>
    ELSE <<>>

WorkloadPart(current_load) ==
    IF current_load <= 2 THEN <<"with low current workload">>
    ELSE IF current_load <= 4 THEN <<"with moderate workload">>
    ELSE IF current_load > 6 THEN <<"despite high workload (best available)">>
    ELSE <<>>

PriorityPart(priority_level) ==
    IF priority_level \in {"CRITICAL", "HIGH"}
    THEN <<"for this " \o priority_level \o " priority ticket">>
    ELSE <<>>

_generate_assignment_rationale(agent, skill_score, workload_factor, experience_bonus, priority_result, current_load) ==
    JoinWithSpaces(<<"Assigned to " \o agent.name \o " (" \o agent.agent_id \o ")",
                     SkillPart(skill_score)>>
                   \o ExperiencePart(agent.experience_level)
                   \o WorkloadPart(current_load)
                   \o PriorityPart(priority_result.priority_level)) \o "."

\* IsAvailable that only skips agents that are offline: C3 fails.
IsAvailable_SkipsOnlyOffline(agent) ==
    lower(agent.availability_status) # "offline"

IsAvailable(agent) ==
    lower(agent.availability_status) = "available"

\* LoadOf that reads every counter as 0, as if commits were not seen by the
\* scoring of later tickets: C22 fails.
LoadOf_IgnoresCounters(current_workloads, agent_id) ==
    0

\* current_workloads.get(agent_id, 0)
LoadOf(current_workloads, agent_id) ==
    IF agent_id \in DOMAIN current_workloads THEN current_workloads[agent_id] ELSE 0

WorkloadFactor(current_load) ==
    RMax(Rat(0, 1), Rat(max_reasonable_load - current_load, max_reasonable_load))

ExperienceBonus(agent) ==
    RMin(Rat(agent.experience_level, 15), Rat(1, 1))

\* The same three factors and the final score in doubles.  max(0, x) is the
\* integer 0 when the quotient x is negative.
\* FloatWorkloadFactor that gives the used share of the capacity instead of
\* the spare one (current_load / max_reasonable_load): C28 fails.
FloatWorkloadFactor_UsedShare(current_load) ==
    DQuot(current_load, max_reasonable_load)

FloatWorkloadFactor(current_load) ==
    IF max_reasonable_load - current_load < 0 THEN DFromInt(0)
    ELSE DQuot(max_reasonable_load - current_load, max_reasonable_load)

FloatExperienceBonus(agent) ==
    DMin(DQuot(agent.experience_level, 15), DFromInt(1))

FloatPriorityMultiplier(priority_level) ==
    CASE priority_level = "CRITICAL" -> DFromInt(1)
      [] priority_level = "HIGH" -> DQuot(8, 10)
      [] priority_level = "MEDIUM" -> DQuot(6, 10)
      [] priority_level = "LOW" -> DQuot(4, 10)
      [] OTHER -> DQuot(6, 10)

\* FloatFinalScore with the weights of skill and workload exchanged: C27 fails.
FloatFinalScore_WeightsExchanged(skill_score, workload_factor, experience_bonus, priority_multiplier) ==
    DAdd(DAdd(DAdd(DMul(skill_score, DQuot(25, 100)),
                   DMul(workload_factor, DQuot(4, 10))),
              DMul(experience_bonus, DQuot(2, 10))),
         DMul(priority_multiplier, DQuot(15, 100)))

FloatFinalScore(skill_score, workload_factor, experience_bonus, priority_multiplier) ==
    DAdd(DAdd(DAdd(DMul(skill_score, DQuot(4, 10)),
                   DMul(workload_factor, DQuot(25, 100))),
              DMul(experience_bonus, DQuot(2, 10))),
         DMul(priority_multiplier, DQuot(15, 100)))

FloatScore(ticket, agent, current_load, priority_level) ==
    FloatFinalScore(FloatSkillMatch(ticket, agent),
                    FloatWorkloadFactor(current_load),
                    FloatExperienceBonus(agent),
                    FloatPriorityMultiplier(priority_level))

\* The double final scores of the pooled texts and profiles, computed once:
\* one per text, skills, experience and workload counter that can meet.
FloatScoreKeys ==
    {<<t, AgentProfiles[i].skills, AgentProfiles[i].experience_level, w,
       PriorityTable[t].priority_level>> :
        t \in DOMAIN PriorityTable, i \in 1..Len(AgentProfiles),
        w \in 0..(max_reasonable_load + MaxTickets)}

FloatScoreTable ==
    [k \in FloatScoreKeys |->
        FloatScore(k[1], [skills |-> k[2], experience_level |-> k[3]], k[4], k[5])]

FloatScoreOf(ticket, agent, current_load, priority_level) ==
    IF <<TextOf(ticket), agent.skills, agent.experience_level, current_load,
         priority_level>> \in DOMAIN FloatScoreTable
    THEN FloatScoreTable[<<TextOf(ticket), agent.skills, agent.experience_level,
                           current_load, priority_level>>]
    ELSE FloatScore(ticket, agent, current_load, priority_level)

\* FinalScore with the four terms weighted equally: C21 fails.
FinalScore_EqualWeights(skill_score, workload_factor, experience_bonus, priority_multiplier) ==
    RMul(RAdd(RAdd(RAdd(skill_score, workload_factor), experience_bonus),
              priority_multiplier),
         Rat(25, 100))

\* final_score of one candidate (lines 232-237).
FinalScore(skill_score, workload_factor, experience_bonus, priority_multiplier) ==
    RAdd(RAdd(RAdd(RMul(skill_score, Rat(4, 10)),
                   RMul(workload_factor, Rat(25, 100))),
              RMul(experience_bonus, Rat(2, 10))),
         RMul(priority_multiplier, Rat(15, 100)))

\* The variables the loop over agents keeps, before the first agent
\* (lines 206-210).
\* NoBest with best_score starting at 1 instead of -1: no candidate scores
\* higher and the loop chooses nobody.  C29 fails.
NoBest_StartsAtOne ==
    [best_agent |-> <<>>, best_score |-> Rat(1, 1), best_float |-> DFromInt(1),
     best_rationale |-> "",
     best_skill_score |-> Rat(0, 1), best_workload_factor |-> Rat(0, 1)]

\* best_score is held twice: best_score is the exact value of the sum,
\* best_float the double the interpreter holds and compares.
NoBest ==
    [best_agent |-> <<>>, best_score |-> Rat(-1, 1), best_float |-> DFromInt(-1),
     best_rationale |-> "",
     best_skill_score |-> Rat(0, 1), best_workload_factor |-> Rat(0, 1)]

\* KeepBetter with >= for >: the last of several best agents wins.  C7 fails.
KeepBetter_LastWinsTies(best, float_score, candidate) ==
    IF DLeq(best.best_float, float_score) THEN candidate ELSE best

\* Lines 239-247: the candidate replaces the best so far when its score is
\* strictly higher.
KeepBetter(best, float_score, candidate) ==
    IF DLess(best.best_float, float_score) THEN candidate ELSE best

Candidate(agent, skill_score, workload_factor, final_score, float_score, rationale) ==
    [best_agent |-> <<agent>>, best_score |-> final_score, best_float |-> float_score,
     best_rationale |-> rationale,
     best_skill_score |-> skill_score, best_workload_factor |-> workload_factor]

ScoreAgent(best, agent, skill_score, workload_factor, experience_bonus, float_score, priority_result, current_load) ==
    KeepBetter(best, float_score,
               Candidate(agent, skill_score, workload_factor,
                         FinalScore(skill_score, workload_factor, experience_bonus,
                                    _get_priority_multiplier(priority_result.priority_level)),
                         float_score,
                         _generate_assignment_rationale(agent, skill_score, workload_factor,
                             experience_bonus, priority_result, current_load)))

\* One iteration of `for agent in agents` (lines 212-247).
ConsiderAgent(best, ticket, agent, priority_result, current_workloads) ==
    IF ~IsAvailable(agent) THEN best
    ELSE ScoreAgent(best, agent, SkillMatchOf(ticket, agent),
                    WorkloadFactor(LoadOf(current_workloads, agent.agent_id)),
                    ExperienceBonus(agent),
                    FloatScoreOf(ticket, agent, LoadOf(current_workloads, agent.agent_id),
                                 priority_result.priority_level),
                    priority_result, LoadOf(current_workloads, agent.agent_id))

RECURSIVE BestOver(_, _, _, _)
BestOver(agents, ticket, priority_result, current_workloads) ==
    IF agents = <<>> THEN NoBest
    ELSE ConsiderAgent(BestOver(SubSeq(agents, 1, Len(agents) - 1), ticket,
                                priority_result, current_workloads),
                       ticket, agents[Len(agents)], priority_result, current_workloads)

DefaultAgent ==
    [agent_id |-> "agent_001", name |-> "Default Agent"]

\* FallbackAgent that takes the last agent of the list, not the first, when
\* nobody is available: C2 fails.
FallbackAgent_LastAgent(agents) ==
    IF SelectSeq(agents, IsAvailable) # <<>> THEN SelectSeq(agents, IsAvailable)[1]
    ELSE IF agents # <<>> THEN agents[Len(agents)]
    ELSE DefaultAgent

\* Lines 249-258: the agent and the rationale when the loop chose nobody.
FallbackAgent(agents) ==
    IF SelectSeq(agents, IsAvailable) # <<>> THEN SelectSeq(agents, IsAvailable)[1]
    ELSE IF agents # <<>> THEN agents[1]
    ELSE DefaultAgent

FallbackRationale(agents) ==
    IF SelectSeq(agents, IsAvailable) # <<>>
    THEN "Assigned to " \o FallbackAgent(agents).name
             \o " (first available agent) due to no strong skill matches."
    ELSE "Emergency assignment - no available agents found."

\* Lines 260-269.
AgentAssignment(ticket, agents, priority_result, best) ==
    [ticket_id |-> ticket.ticket_id,
     assigned_agent_id |-> IF best.best_agent # <<>> THEN best.best_agent[1].agent_id
                           ELSE FallbackAgent(agents).agent_id,
     rationale |-> IF best.best_agent # <<>> THEN best.best_rationale
                   ELSE FallbackRationale(agents),
     priority_level |-> priority_result.priority_level,
     priority_score |-> priority_result.priority_score,
     skill_match_score |-> best.best_skill_score,
     workload_factor |-> best.best_workload_factor,
     final_score |-> best.best_score]

AssignWithPriority(ticket, agents, current_workloads, priority_result) ==
    AgentAssignment(ticket, agents, priority_result,
                    BestOver(agents, ticket, priority_result, current_workloads))

_assign_single_ticket(ticket, agents, current_workloads) ==
    AssignWithPriority(ticket, agents, current_workloads, PriorityOf(ticket))

(***************************************************************************)
(* The state: the caller's dataset, one TicketAssignmentSystem instance,   *)
(* the locals of the assign_tickets call in progress, and what the calls   *)
(* made so far gave back to the caller.                                    *)
(***************************************************************************)
VARIABLES dataset, pc, agent_workloads, prioritized_tickets, assignments, outcomes

vars ==
    <<dataset, pc, agent_workloads, prioritized_tickets, assignments, outcomes>>

\* InitialWorkloads that keeps the counters of the previous call on the
\* instance when there are some: C5 fails.
InitialWorkloads_KeptOnInstance(agents) ==
    IF DOMAIN agent_workloads = {agents[i].agent_id : i \in 1..Len(agents)}
           /\ agents # <<>>
    THEN agent_workloads
    ELSE [id \in {agents[i].agent_id : i \in 1..Len(agents)} |->
             (CHOOSE a \in {agents[i] : i \in 1..Len(agents)} : a.agent_id = id).current_load]

\* agent_workloads as assign_tickets builds it (line 152).
InitialWorkloads(agents) ==
    [id \in {agents[i].agent_id : i \in 1..Len(agents)} |->
        (CHOOSE a \in {agents[i] : i \in 1..Len(agents)} : a.agent_id = id).current_load]

Init ==
    /\ dataset \in Datasets
    /\ pc = "idle"
    /\ agent_workloads = <<>>
    /\ prioritized_tickets = <<>>
    /\ assignments = <<>>
    /\ outcomes = <<>>

\* Call with the tickets sorted in place in the caller's list: C9 fails.
Call_SortsInPlace ==
    /\ pc = "idle"
    /\ Len(outcomes) < MaxCalls
    /\ agent_workloads' = InitialWorkloads(dataset.agents)
    /\ prioritized_tickets' = _prioritize_tickets(dataset.tickets)
    /\ dataset' = [dataset EXCEPT !.tickets = _prioritize_tickets(dataset.tickets)]
    /\ assignments' = <<>>
    /\ pc' = "loop"
    /\ UNCHANGED outcomes

\* assign_tickets up to its loop (lines 148-155).
Call ==
    /\ pc = "idle"
    /\ Len(outcomes) < MaxCalls
    /\ agent_workloads' = InitialWorkloads(dataset.agents)
    /\ prioritized_tickets' = _prioritize_tickets(dataset.tickets)
    /\ assignments' = <<>>
    /\ pc' = "loop"
    /\ UNCHANGED <<dataset, outcomes>>

\* Commit that puts the new record in front of the list (insert(0, ...) for
\* append): C23 fails.
Commit_PutsRecordFirst(assignment) ==
    /\ assignments' = <<assignment>> \o assignments
    /\ IF assignment.assigned_agent_id \in DOMAIN agent_workloads
       THEN /\ agent_workloads' =
                   [agent_workloads EXCEPT ![assignment.assigned_agent_id] = @ + 1]
            /\ UNCHANGED <<pc, outcomes>>
       ELSE /\ pc' = "idle"
            /\ outcomes' = Append(outcomes, [kind |-> "raised", error |-> "KeyError"])
            /\ UNCHANGED agent_workloads

\* One iteration of the loop (lines 157-162).  The increment of line 162 is a
\* dict item update: it raises KeyError for an id that is not a key, and the
\* exception leaves assign_tickets.
Commit(assignment) ==
    /\ assignments' = Append(assignments, assignment)
    /\ IF assignment.assigned_agent_id \in DOMAIN agent_workloads
       THEN /\ agent_workloads' =
                   [agent_workloads EXCEPT ![assignment.assigned_agent_id] = @ + 1]
            /\ UNCHANGED <<pc, outcomes>>
       ELSE /\ pc' = "idle"
            /\ outcomes' = Append(outcomes, [kind |-> "raised", error |-> "KeyError"])
            /\ UNCHANGED agent_workloads

\* ProcessTicket that marks the agent it has assigned as Busy in the dataset:
\* the candidate pool shrinks during the run.  C30 fails.
MarkedBusy(agents, agent_id) ==
    [i \in DOMAIN agents |->
        IF agents[i].agent_id = agent_id
        THEN [agents[i] EXCEPT !.availability_status = "Busy"]
        ELSE agents[i]]

ProcessTicket_MarksAgentBusy ==
    /\ pc = "loop"
    /\ Len(assignments) < Len(prioritized_tickets)
    /\ Commit(_assign_single_ticket(prioritized_tickets[Len(assignments) + 1],
                                    dataset.agents, agent_workloads))
    /\ dataset' = [dataset EXCEPT !.agents =
                       MarkedBusy(dataset.agents,
                                  _assign_single_ticket(
                                      prioritized_tickets[Len(assignments) + 1],
                                      dataset.agents, agent_workloads).assigned_agent_id)]
    /\ UNCHANGED prioritized_tickets

ProcessTicket ==
    /\ pc = "loop"
    /\ Len(assignments) < Len(prioritized_tickets)
    /\ Commit(_assign_single_ticket(prioritized_tickets[Len(assignments) + 1],
                                    dataset.agents, agent_workloads))
    /\ UNCHANGED <<dataset, prioritized_tickets>>

\* return assignments (line 164).
Return ==
    /\ pc = "loop"
    /\ Len(assignments) = Len(prioritized_tickets)
    /\ outcomes' = Append(outcomes, [kind |-> "returned", assignments |-> assignments])
    /\ pc' = "idle"
    /\ UNCHANGED <<dataset, agent_workloads, prioritized_tickets, assignments>>

Next ==
    \/ Call
    \/ ProcessTicket
    \/ Return

Spec ==
    Init /\ [][Next]_vars

(***************************************************************************)
(* Direct calls of the two pure methods, PriorityAnalyzer.analyze_priority *)
(* and TicketAssignmentSystem._calculate_skill_match, on one ticket and on *)
(* the agents of a dataset.  outcomes records what each call returned.     *)
(* The tickets are the scenario and example tickets and every text of a    *)
(* title of at most MaxWords words and one of two descriptions;            *)
(* the agents carry at most MaxSkills skills.                              *)
(***************************************************************************)
MaxWords ==
    2

MaxSkills ==
    2

Words ==
    {"Widespread", "deadline", "client", "minor", "enhancement", "production"}

Descriptions ==
    {"", "client"}

RECURSIVE Phrases(_)
Phrases(n) ==
    IF n = 0 THEN {""}
    ELSE IF n = 1 THEN Words
    ELSE {p \o " " \o w : p \in Phrases(n - 1), w \in Words}

ScenarioA ==
    [title |-> "Production server is completely down",
     description |-> "All users cannot access the main application. Emergency response needed immediately."]

ScenarioB ==
    [title |-> "Feature request: Add dark mode to dashboard",
     description |-> "Users have requested a dark theme option. This would be a nice enhancement when time permits."]

AnalyzerTexts ==
    {[title |-> t, description |-> d] :
        t \in UNION {Phrases(n) : n \in 0..MaxWords}, d \in Descriptions}
      \cup {ScenarioA, ScenarioB}
      \cup {[title |-> SpecificExamples[i].title,
             description |-> SpecificExamples[i].description] :
                i \in 1..Len(SpecificExamples)}

SkillPool ==
    {<<"Networking", 10>>, <<"VPN_Troubleshooting", 7>>, <<"Printer_Support", 8>>,
     <<"Mainframe_COBOL", 5>>}

\* The skills dicts of n entries, in insertion order: no skill name twice.
RECURSIVE SkillDicts(_)
SkillDicts(n) ==
    IF n = 0 THEN {<<>>}
    ELSE UNION {{Append(d, e) :
                    e \in {x \in SkillPool : \A k \in 1..Len(d) : d[k][1] # x[1]}} :
                        d \in SkillDicts(n - 1)}

SkillTexts ==
    {TicketTexts[i] : i \in 1..Len(TicketTexts)}

DirectTicket(text) ==
    [ticket_id |-> TicketId(1), title |-> text.title, description |-> text.description]

DirectAgent(i, skills) ==
    [agent_id |-> AgentId(i), name |-> "Pat", skills |-> skills,
     availability_status |-> "Available", experience_level |-> 5, current_load |-> 0]

\* One agent, or an agent and the same agent with one more skill.
DirectAgentLists ==
    {<<DirectAgent(1, d)>> : d \in UNION {SkillDicts(n) : n \in 0..MaxSkills}}
      \cup {<<DirectAgent(1, SubSeq(d, 1, Len(d) - 1)), DirectAgent(2, d)>> :
                d \in UNION {SkillDicts(n) : n \in 1..MaxSkills}}

DirectDatasets ==
    {[agents |-> <<>>, tickets |-> <<DirectTicket(t)>>] : t \in AnalyzerTexts}
      \cup {[agents |-> a, tickets |-> <<DirectTicket(t)>>] :
                a \in DirectAgentLists, t \in SkillTexts}

DirectInit ==
    /\ dataset \in DirectDatasets
    /\ pc = "idle"
    /\ agent_workloads = <<>>
    /\ prioritized_tickets = <<>>
    /\ assignments = <<>>
    /\ outcomes = <<>>

\* result = self.priority_analyzer.analyze_priority(title, description)
AnalyzePriorityCall(ticket) ==
    [kind |-> "returned", call |-> "analyze_priority",
     title |-> ticket.title, description |-> ticket.description,
     result |-> analyze_priority(ticket.title, ticket.description)]

CallAnalyzePriority ==
    /\ Len(outcomes) < MaxCalls
    /\ \E i \in DOMAIN dataset.tickets :
           outcomes' = Append(outcomes, AnalyzePriorityCall(dataset.tickets[i]))
    /\ UNCHANGED <<dataset, pc, agent_workloads, prioritized_tickets, assignments>>

\* skill_score = self._calculate_skill_match(ticket, agent)
SkillMatchCall(ticket, agent) ==
    [kind |-> "returned", call |-> "_calculate_skill_match",
     ticket |-> ticket, agent |-> agent,
     result |-> _calculate_skill_match(ticket, agent)]

CallCalculateSkillMatch ==
    /\ Len(outcomes) < MaxCalls
    /\ \E i \in DOMAIN dataset.tickets, a \in DOMAIN dataset.agents :
           outcomes' = Append(outcomes, SkillMatchCall(dataset.tickets[i], dataset.agents[a]))
    /\ UNCHANGED <<dataset, pc, agent_workloads, prioritized_tickets, assignments>>

DirectNext ==
    \/ CallAnalyzePriority
    \/ CallCalculateSkillMatch

DirectSpec ==
    DirectInit /\ [][DirectNext]_vars

(***************************************************************************)
(* Summary of generate_detailed_report (lines 404-414): the number of      *)
(* records per assigned agent.                                             *)
(***************************************************************************)
agent_counts(records) ==
    [id \in {records[i].assigned_agent_id : i \in DOMAIN records} |->
        Cardinality({i \in DOMAIN records : records[i].assigned_agent_id = id})]

RECURSIVE SumCounts(_, _)
SumCounts(counts, ids) ==
    IF ids = {} THEN 0
    ELSE LET id == CHOOSE x \in ids : TRUE
         IN  counts[id] + SumCounts(counts, ids \ {id})

\* The composite score of one candidate for a ticket under given workload
\* counters (lines 217-237).
CompositeScore(ticket, agent, workloads) ==
    FinalScore(SkillMatchOf(ticket, agent),
               WorkloadFactor(LoadOf(workloads, agent.agent_id)),
               ExperienceBonus(agent),
               _get_priority_multiplier(PriorityOf(ticket).priority_level))

\* The same score as the double the code compares.
FloatCompositeScore(ticket, agent, workloads) ==
    FloatScoreOf(ticket, agent, LoadOf(workloads, agent.agent_id),
                 PriorityOf(ticket).priority_level)

(***************************************************************************)
(* Vocabulary of the properties.                                           *)
(***************************************************************************)
Contains(s, sub) ==
    \E i \in 1..(Len(s) - Len(sub) + 1) : SubSeq(s, i, i + Len(sub) - 1) = sub

AvailableIndexes ==
    {i \in DOMAIN dataset.agents : dataset.agents[i].availability_status = "Available"}

\* Every list of records the caller has received, and the one being built.
RecordLists ==
    {outcomes[k].assignments : k \in {j \in DOMAIN outcomes : outcomes[j].kind = "returned"}}
        \cup {assignments}

IsFallbackRationale(rationale) ==
    Contains(rationale, "no available agents")

\* Position of a ticket id in the caller's ticket list.
InputPosition(ticket_id) ==
    CHOOSE i \in DOMAIN dataset.tickets : dataset.tickets[i].ticket_id = ticket_id

\* A step of the loop: one more record.
ProcessedOne ==
    Len(assignments') = Len(assignments) + 1

(***************************************************************************)
(* C1: with an empty agent list and at least one ticket, assign_tickets    *)
(* does not raise: it returns one record per ticket, each naming the       *)
(* placeholder agent agent_001 with the emergency rationale.               *)
(***************************************************************************)
C1_EmptyAgentListFallback ==
    (dataset.agents = <<>> /\ dataset.tickets # <<>>) =>
        \A k \in DOMAIN outcomes :
            /\ outcomes[k].kind = "returned"
            /\ Len(outcomes[k].assignments) = Len(dataset.tickets)
            /\ \A i \in DOMAIN outcomes[k].assignments :
                   /\ outcomes[k].assignments[i].assigned_agent_id = DefaultAgent.agent_id
                   /\ Contains(outcomes[k].assignments[i].rationale, "Emergency")

(***************************************************************************)
(* C2: with a non-empty agent list none of whose agents is Available,      *)
(* assign_tickets never raises and returns exactly one record per ticket,  *)
(* each assigned to the first agent of the list with a rationale that      *)
(* says "no available agents".                                             *)
(***************************************************************************)
C2_NoAvailableAgentFallback ==
    (dataset.agents # <<>> /\ AvailableIndexes = {}) =>
        /\ \A i \in DOMAIN assignments :
               /\ assignments[i].assigned_agent_id = dataset.agents[1].agent_id
               /\ IsFallbackRationale(assignments[i].rationale)
        /\ \A k \in DOMAIN outcomes :
               /\ outcomes[k].kind = "returned"
               /\ Len(outcomes[k].assignments) = Len(dataset.tickets)
               /\ \A t \in DOMAIN dataset.tickets :
                      Cardinality({i \in DOMAIN outcomes[k].assignments :
                          outcomes[k].assignments[i].ticket_id
                              = dataset.tickets[t].ticket_id}) = 1
               /\ \A i \in DOMAIN outcomes[k].assignments :
                      /\ outcomes[k].assignments[i].assigned_agent_id
                             = dataset.agents[1].agent_id
                      /\ IsFallbackRationale(outcomes[k].assignments[i].rationale)

C2_Witness ==
    /\ Len(dataset.agents) = 2
    /\ AvailableIndexes = {}
    /\ dataset.agents[1].availability_status # dataset.agents[2].availability_status
    /\ Len(dataset.tickets) >= 2
    /\ outcomes # <<>>
    /\ outcomes[1].kind = "returned"
    /\ Len(outcomes[1].assignments) = Len(dataset.tickets)

(***************************************************************************)
(* C3: when at least one agent is Available, every record names an agent   *)
(* of the list whose availability_status is Available.                     *)
(***************************************************************************)
C3_OnlyAvailableAgentsAssigned ==
    AvailableIndexes # {} =>
        \A records \in RecordLists :
            \A i \in DOMAIN records :
                \E a \in AvailableIndexes :
                    dataset.agents[a].agent_id = records[i].assigned_agent_id

C3_Witness ==
    /\ AvailableIndexes # {}
    /\ \E a \in DOMAIN dataset.agents : a \notin AvailableIndexes /\ a = 1
    /\ outcomes # <<>>
    /\ outcomes[1].kind = "returned"
    /\ Len(outcomes[1].assignments) >= 2

(***************************************************************************)
(* C4: with a non-empty agent list, a call returns exactly one record per  *)
(* input ticket (the ticket ids of the output are a permutation of those   *)
(* of the input), and the per-agent counts of the report sum to the number *)
(* of tickets.                                                             *)
(***************************************************************************)
C4_OneRecordPerTicket ==
    dataset.agents # <<>> =>
        \A k \in DOMAIN outcomes :
            /\ outcomes[k].kind = "returned"
            /\ Len(outcomes[k].assignments) = Len(dataset.tickets)
            /\ \A t \in DOMAIN dataset.tickets :
                   Cardinality({i \in DOMAIN outcomes[k].assignments :
                       outcomes[k].assignments[i].ticket_id
                           = dataset.tickets[t].ticket_id}) = 1
            /\ SumCounts(agent_counts(outcomes[k].assignments),
                         DOMAIN agent_counts(outcomes[k].assignments))
                   = Len(dataset.tickets)

C4_Witness ==
    /\ Len(dataset.agents) = 2
    /\ Len(dataset.tickets) = 3
    /\ outcomes # <<>>
    /\ outcomes[1].kind = "returned"
    /\ Cardinality(DOMAIN agent_counts(outcomes[1].assignments)) = 2
    /\ \E i \in 1..3 : outcomes[1].assignments[i].ticket_id # dataset.tickets[i].ticket_id

(***************************************************************************)
(* C5: calls made one after the other on the same instance with the same   *)
(* dataset end the same way with the same ordered list of records: the     *)
(* workload counters of one call do not carry into the next.               *)
(***************************************************************************)
C5_RepeatedCallsAgree ==
    \A i, j \in DOMAIN outcomes : outcomes[i] = outcomes[j]

C5_Witness ==
    /\ Len(outcomes) = 2
    /\ outcomes[1].kind = "returned"
    /\ outcomes[2].kind = "returned"
    /\ Cardinality(AvailableIndexes) = 2
    /\ Len(outcomes[2].assignments) >= 2
    /\ agent_workloads # InitialWorkloads(dataset.agents)

(***************************************************************************)
(* C6: the records come in ascending order of (level ordinal, -score): of  *)
(* two records the earlier one has the more urgent level or, at the same   *)
(* level, a score at least as high; tickets with the same level and score  *)
(* keep their input order.                                                 *)
(***************************************************************************)
C6_RecordsInPriorityOrder ==
    \A records \in RecordLists :
        \A i, j \in DOMAIN records :
            i < j =>
                /\ LevelValue(records[i].priority_level)
                       <= LevelValue(records[j].priority_level)
                /\ records[i].priority_level = records[j].priority_level =>
                       records[j].priority_score.n * records[i].priority_score.d
                           <= records[i].priority_score.n * records[j].priority_score.d
                /\ (/\ records[i].priority_level = records[j].priority_level
                    /\ records[i].priority_score = records[j].priority_score) =>
                       InputPosition(records[i].ticket_id)
                           < InputPosition(records[j].ticket_id)

C6_Witness ==
    /\ outcomes # <<>>
    /\ outcomes[1].kind = "returned"
    /\ Len(outcomes[1].assignments) = 3
    /\ LET r == outcomes[1].assignments
       IN  /\ r[1].priority_level = r[2].priority_level
           /\ r[1].priority_score # r[2].priority_score
           /\ r[2].priority_level = r[3].priority_level
           /\ r[2].priority_score = r[3].priority_score
           /\ InputPosition(r[1].ticket_id) = 2

(***************************************************************************)
(* C7: when the candidate pool is not empty, the agent chosen for a ticket *)
(* has, under the workload counters as they stand when the ticket is       *)
(* processed, a composite score >= that of every Available agent later in  *)
(* the list and > that of every Available agent earlier in the list (the   *)
(* scores being the doubles the code computes).                            *)
(***************************************************************************)
C7_SelectedAgentIsFirstBest ==
    [][(ProcessedOne /\ AvailableIndexes # {}) =>
          \E s \in DOMAIN dataset.agents :
              /\ dataset.agents[s].agent_id
                     = assignments'[Len(assignments')].assigned_agent_id
              /\ \A k \in AvailableIndexes :
                     /\ k > s =>
                            DLeq(FloatCompositeScore(prioritized_tickets[Len(assignments')],
                                                     dataset.agents[k], agent_workloads),
                                 FloatCompositeScore(prioritized_tickets[Len(assignments')],
                                                     dataset.agents[s], agent_workloads))
                     /\ k < s =>
                            DLess(FloatCompositeScore(prioritized_tickets[Len(assignments')],
                                                      dataset.agents[k], agent_workloads),
                                  FloatCompositeScore(prioritized_tickets[Len(assignments')],
                                                      dataset.agents[s], agent_workloads))]_vars

C7_Witness ==
    /\ Cardinality(AvailableIndexes) = 2
    /\ dataset.agents[1].skills = dataset.agents[2].skills
    /\ Len(assignments) = 3
    /\ assignments[1].assigned_agent_id = dataset.agents[1].agent_id
    /\ assignments[2].assigned_agent_id = dataset.agents[2].agent_id
    /\ assignments[3].assigned_agent_id = dataset.agents[1].agent_id

(***************************************************************************)
(* C8: each processed ticket increments the workload counter of exactly    *)
(* the agent named in its record by 1 and leaves the other counters        *)
(* unchanged.                                                              *)
(***************************************************************************)
C8_CommitIncrementsAssignedAgent ==
    [][ProcessedOne =>
          /\ assignments'[Len(assignments')].assigned_agent_id \in DOMAIN agent_workloads
          /\ DOMAIN agent_workloads' = DOMAIN agent_workloads
          /\ \A id \in DOMAIN agent_workloads :
                 agent_workloads'[id] =
                     IF id = assignments'[Len(assignments')].assigned_agent_id
                     THEN agent_workloads[id] + 1
                     ELSE agent_workloads[id]]_vars

(***************************************************************************)
(* C9: assign_tickets leaves the caller's dataset as it found it: no step  *)
(* changes an agent record or the ticket list.                             *)
(***************************************************************************)
C9_DatasetUnchanged ==
    [][dataset' = dataset]_vars

C9_Witness ==
    /\ outcomes # <<>>
    /\ outcomes[1].kind = "returned"
    /\ Len(dataset.tickets) = 3
    /\ prioritized_tickets # dataset.tickets
    /\ \E i \in DOMAIN dataset.agents :
           agent_workloads[dataset.agents[i].agent_id] > dataset.agents[i].current_load

(***************************************************************************)
(* C10: in every record skill_match_score lies in [0,1] and priority_score *)
(* is >= 0 (the skill levels of the datasets lie in 1..10).                *)
(***************************************************************************)
C10_ScoresInRange ==
    \A records \in RecordLists :
        \A i \in DOMAIN records :
            /\ records[i].skill_match_score.d > 0
            /\ 0 <= records[i].skill_match_score.n
            /\ records[i].skill_match_score.n <= records[i].skill_match_score.d
            /\ records[i].priority_score.d > 0
            /\ 0 <= records[i].priority_score.n

C10_Witness ==
    /\ \A i \in DOMAIN dataset.agents :
           \A k \in DOMAIN dataset.agents[i].skills :
               dataset.agents[i].skills[k][2] \in 1..10
    /\ \E i \in DOMAIN assignments :
           /\ assignments[i].skill_match_score.n > 0
           /\ assignments[i].skill_match_score.n < assignments[i].skill_match_score.d
           /\ assignments[i].priority_score.n > 0
    /\ \E i \in DOMAIN assignments : assignments[i].skill_match_score.n = 0

(***************************************************************************)
(* C11: in Scenario C (one Available agent with Network_Security 9, one    *)
(* ticket mentioning "security breach" and "unauthorized access") the      *)
(* ticket is assigned to that agent with skill_match_score > 0.5.          *)
(***************************************************************************)
C11_ScenarioC ==
    dataset = ScenarioC =>
        \A k \in DOMAIN outcomes :
            /\ outcomes[k].kind = "returned"
            /\ Len(outcomes[k].assignments) = 1
            /\ outcomes[k].assignments[1].assigned_agent_id = ScenarioC.agents[1].agent_id
            /\ RLess(Rat(1, 2), outcomes[k].assignments[1].skill_match_score)

(***************************************************************************)
(* Vocabulary of the properties of direct calls.  The scores a text        *)
(* deserves are stated from the keyword tables: the raw score of a level   *)
(* is the sum of the weights of its keywords that occur in the text, and   *)
(* the multiplier is the largest one among the impact phrases that occur.  *)
(***************************************************************************)
LastCall ==
    outcomes[Len(outcomes)]

AnalyzedLast ==
    outcomes # <<>> /\ LastCall.call = "analyze_priority"

ScoredLast ==
    outcomes # <<>> /\ LastCall.call = "_calculate_skill_match"

AnalyzedText(text) ==
    /\ AnalyzedLast
    /\ LastCall.title = text.title
    /\ LastCall.description = text.description

FullText(title, description) ==
    lower(title \o " " \o description)

Occurring(table, full_text) ==
    {i \in 1..Len(table) : SearchWholeWord(lower(table[i][1]), full_text)}

RECURSIVE SumOfTenths(_, _)
SumOfTenths(table, indexes) ==
    IF indexes = {} THEN 0
    ELSE LET i == CHOOSE x \in indexes : TRUE
         IN  table[i][2] + SumOfTenths(table, indexes \ {i})

RawScore(level, full_text) ==
    Rat(SumOfTenths(urgency_keywords[level], Occurring(urgency_keywords[level], full_text)), 10)

LargestMultiplier(full_text) ==
    LET found == {impact_multipliers[i][2] : i \in Occurring(impact_multipliers, full_text)}
    IN  IF found = {} THEN Rat(1, 1)
        ELSE Rat(CHOOSE m \in found : \A x \in found : x <= m, 10)

ScoresWith(full_text, multiplier) ==
    [CRITICAL |-> RMul(RawScore("CRITICAL", full_text), multiplier),
     HIGH |-> RMul(RawScore("HIGH", full_text), multiplier),
     MEDIUM |-> RMul(RawScore("MEDIUM", full_text), multiplier),
     LOW |-> RMul(RawScore("LOW", full_text), multiplier)]

\* The final score each level deserves for a text.
DeservedScores(full_text) ==
    ScoresWith(full_text, LargestMultiplier(full_text))

\* The scores of the text of the last call.
LastScores ==
    DeservedScores(FullText(LastCall.title, LastCall.description))

NoKeywordOccurs(full_text) ==
    \A l \in {"CRITICAL", "HIGH", "MEDIUM", "LOW"} :
        Occurring(urgency_keywords[l], full_text) = {}

Levels ==
    {PriorityLevel[i] : i \in 1..Len(PriorityLevel)}

CriticalLeads(scores) ==
    /\ scores.CRITICAL.n > 0
    /\ \A l \in Levels : ~RLess(scores.CRITICAL, scores[l])

IsFirstOfMaxima(level, scores) ==
    \A l \in Levels :
        /\ RLeq(scores[l], scores[level])
        /\ LevelValue(l) < LevelValue(level) => RLess(scores[l], scores[level])

(***************************************************************************)
(* C12: the Scenario B ticket ("Feature request: Add dark mode to          *)
(* dashboard") is classified LOW.                                          *)
(***************************************************************************)
C12_ScenarioBIsLow ==
    AnalyzedText(ScenarioB) => LastCall.result.priority_level = "LOW"

(***************************************************************************)
(* C13: each of the five example tickets of test_specific_examples is      *)
(* classified at its expected level.                                       *)
(***************************************************************************)
C13_ExamplesAtExpectedLevel ==
    \A i \in 1..Len(SpecificExamples) :
        AnalyzedText(SpecificExamples[i]) =>
            LastCall.result.priority_level = SpecificExamples[i].expected

(***************************************************************************)
(* C14: the Scenario A ticket ("Production server is completely down") is  *)
(* classified CRITICAL and the impact multiplier applied to it is greater  *)
(* than 1.0: its score is greater than the raw score of its CRITICAL       *)
(* keywords.                                                               *)
(***************************************************************************)
C14_ScenarioAIsCritical ==
    AnalyzedText(ScenarioA) =>
        /\ LastCall.result.priority_level = "CRITICAL"
        /\ RLess(Rat(0, 1), RawScore("CRITICAL", FullText(ScenarioA.title, ScenarioA.description)))
        /\ RLess(RawScore("CRITICAL", FullText(ScenarioA.title, ScenarioA.description)),
                 LastCall.result.priority_score)

C14_Witness ==
    /\ AnalyzedText(ScenarioA)
    /\ LastCall.result.priority_score = Rat(175, 2)

(***************************************************************************)
(* C15: a text in which a CRITICAL keyword occurs and in which no other    *)
(* level's final score exceeds the CRITICAL final score is classified      *)
(* CRITICAL.                                                               *)
(***************************************************************************)
C15_CriticalWhenNotOutscored ==
    (AnalyzedLast /\ CriticalLeads(LastScores)) =>
        LastCall.result.priority_level = "CRITICAL"

C15_Witness ==
    /\ AnalyzedLast
    /\ CriticalLeads(LastScores)
    /\ LastScores.HIGH = LastScores.CRITICAL
    /\ LastScores.CRITICAL # RawScore("CRITICAL", FullText(LastCall.title, LastCall.description))

(***************************************************************************)
(* C16: analyze_priority returns a result for every title and description, *)
(* the empty strings included; when no urgency keyword of any level occurs *)
(* in the text the result is MEDIUM with priority_score 0 and no matched   *)
(* keyword, whatever impact phrases the text contains.                     *)
(***************************************************************************)
C16_MediumWhenNothingMatches ==
    AnalyzedLast =>
        /\ LastCall.kind = "returned"
        /\ LastCall.result.priority_level \in Levels
        /\ NoKeywordOccurs(FullText(LastCall.title, LastCall.description)) =>
               /\ LastCall.result.priority_level = "MEDIUM"
               /\ LastCall.result.priority_score = Rat(0, 1)
               /\ LastCall.result.matched_keywords = <<>>

C16_Witness ==
    /\ AnalyzedLast
    /\ NoKeywordOccurs(FullText(LastCall.title, LastCall.description))
    /\ RLess(Rat(1, 1), LargestMultiplier(FullText(LastCall.title, LastCall.description)))
    /\ LastCall.description = ""

(***************************************************************************)
(* C17: when at least one keyword occurs, the level returned is one with   *)
(* the maximum final score, and the first of them in the order CRITICAL,   *)
(* HIGH, MEDIUM, LOW when several levels share the maximum.                *)
(***************************************************************************)
C17_FirstLevelOfMaximumScore ==
    (AnalyzedLast /\ ~NoKeywordOccurs(FullText(LastCall.title, LastCall.description))) =>
        IsFirstOfMaxima(LastCall.result.priority_level, LastScores)

C17_Witness ==
    /\ AnalyzedLast
    /\ LastCall.result.priority_level = "MEDIUM"
    /\ LastScores.LOW = LastScores.MEDIUM
    /\ LastScores.MEDIUM.n > 0

(***************************************************************************)
(* C18: priority_score is the raw keyword-weight sum of the winning level  *)
(* times the single largest multiplier among the impact phrases that occur *)
(* in the text (not their product or sum), and times 1.0 when none occurs. *)
(***************************************************************************)
C18_ScoreIsRawSumTimesLargestMultiplier ==
    AnalyzedLast =>
        LastCall.result.priority_score = LastScores[LastCall.result.priority_level]

C18_Witness ==
    /\ AnalyzedLast
    /\ Cardinality({impact_multipliers[i][2] :
                        i \in Occurring(impact_multipliers,
                                        FullText(LastCall.title, LastCall.description))}) = 3
    /\ LastCall.result.priority_score.n > 0

(***************************************************************************)
(* Skill scores stated from the skill-keyword table: match_count is the    *)
(* number of distinct keywords of a skill that occur in the ticket text.   *)
(***************************************************************************)
ConfiguredKeywords(skill_name) ==
    IF skill_name \in DOMAIN skill_keywords
    THEN {skill_keywords[skill_name][i] : i \in 1..Len(skill_keywords[skill_name])}
    ELSE {}

MatchCount(skill_name, full_text) ==
    Cardinality({kw \in ConfiguredKeywords(skill_name) :
                    SearchWholeWord(lower(kw), full_text)})

Contribution(skill, full_text) ==
    RMul(Rat(skill[2], 10), RMin(Rat(MatchCount(skill[1], full_text), 3), Rat(1, 1)))

MatchedSkills(skills, full_text) ==
    {k \in 1..Len(skills) : MatchCount(skills[k][1], full_text) > 0}

RECURSIVE SumOfContributions(_, _, _)
SumOfContributions(skills, indexes, full_text) ==
    IF indexes = {} THEN Rat(0, 1)
    ELSE LET k == CHOOSE x \in indexes : TRUE
         IN  RAdd(Contribution(skills[k], full_text),
                  SumOfContributions(skills, indexes \ {k}, full_text))

AverageOver(skills, matched, full_text) ==
    IF matched = {} THEN Rat(0, 1)
    ELSE RDiv(SumOfContributions(skills, matched, full_text), Rat(Cardinality(matched), 1))

AverageContribution(skills, full_text) ==
    AverageOver(skills, MatchedSkills(skills, full_text), full_text)

\* A skill that is not configured, or none of whose keywords occurs.
IsIgnored(skill, full_text) ==
    MatchCount(skill[1], full_text) = 0

\* Calls j and i scored the same ticket, for agents whose skills differ by
\* one skill added at the end in call j.
AddsOneSkill(i, j) ==
    /\ outcomes[i].call = "_calculate_skill_match"
    /\ outcomes[j].call = "_calculate_skill_match"
    /\ outcomes[i].ticket = outcomes[j].ticket
    /\ Len(outcomes[j].agent.skills) = Len(outcomes[i].agent.skills) + 1
    /\ SubSeq(outcomes[j].agent.skills, 1, Len(outcomes[i].agent.skills))
           = outcomes[i].agent.skills

AddedSkill(j) ==
    outcomes[j].agent.skills[Len(outcomes[j].agent.skills)]

(***************************************************************************)
(* C19: the skill score is the average, over the agent's skills with at    *)
(* least one keyword in the ticket text, of                                *)
(* (skill_level / 10) * min(match_count / 3, 1.0), and exactly 0 when no   *)
(* skill of the agent has a match.                                         *)
(***************************************************************************)
C19_SkillScoreIsAverageContribution ==
    ScoredLast =>
        LastCall.result =
            AverageContribution(LastCall.agent.skills,
                                FullText(LastCall.ticket.title, LastCall.ticket.description))

C19_Witness ==
    /\ ScoredLast
    /\ Len(LastCall.agent.skills) = 2
    /\ MatchCount(LastCall.agent.skills[1][1],
                  FullText(LastCall.ticket.title, LastCall.ticket.description)) > 3
    /\ MatchCount(LastCall.agent.skills[2][1],
                  FullText(LastCall.ticket.title, LastCall.ticket.description)) \in 1..2

(***************************************************************************)
(* C20: adding to an agent a skill that is absent from the skill-keyword   *)
(* table, or a configured skill none of whose keywords occurs in the       *)
(* ticket text, raises no error and leaves the agent's skill score for     *)
(* that ticket as it was.                                                  *)
(***************************************************************************)
C20_IgnoredSkillChangesNothing ==
    \A i, j \in DOMAIN outcomes :
        (/\ AddsOneSkill(i, j)
         /\ IsIgnored(AddedSkill(j),
                      FullText(outcomes[j].ticket.title, outcomes[j].ticket.description))) =>
            /\ outcomes[j].kind = "returned"
            /\ outcomes[j].result = outcomes[i].result

C20_Witness ==
    \E i, j \in DOMAIN outcomes :
        /\ AddsOneSkill(i, j)
        /\ AddedSkill(j)[1] \notin DOMAIN skill_keywords
        /\ outcomes[i].result.n > 0
        /\ outcomes[j].result = outcomes[i].result

(***************************************************************************)
(* Vocabulary of the properties about the records of a run.                *)
(***************************************************************************)
\* The record the step appends and the ticket it is for.
NewRecord ==
    assignments'[Len(assignments')]

NewTicket ==
    prioritized_tickets[Len(assignments')]

\* The agent of the caller's list that a record names.
AgentNamed(record) ==
    CHOOSE s \in DOMAIN dataset.agents :
        dataset.agents[s].agent_id = record.assigned_agent_id

MultiplierOf(level) ==
    CASE level = "CRITICAL" -> Rat(10, 10)
      [] level = "HIGH" -> Rat(8, 10)
      [] level = "MEDIUM" -> Rat(6, 10)
      [] level = "LOW" -> Rat(4, 10)

\* max(0, (8 - w) / 8)
SpareCapacity(w) ==
    IF w >= 8 THEN Rat(0, 1) ELSE Rat(8 - w, 8)

\* min(experience_level / 15, 1)
CappedExperience(experience_level) ==
    IF experience_level >= 15 THEN Rat(1, 1) ELSE Rat(experience_level, 15)

WeightedSum(skill, workload, experience, multiplier) ==
    RAdd(RAdd(RMul(Rat(40, 100), skill), RMul(Rat(25, 100), workload)),
         RAdd(RMul(Rat(20, 100), experience), RMul(Rat(15, 100), multiplier)))

(***************************************************************************)
(* C21: every record produced from a non-empty candidate pool has          *)
(* final_score = 0.4 * skill_match_score + 0.25 * workload_factor          *)
(* + 0.2 * min(experience_level / 15, 1) + 0.15 * multiplier(level), where *)
(* workload_factor = max(0, (8 - w) / 8) lies in [0, 1], w is the selected *)
(* agent's workload counter before the ticket's increment, and the         *)
(* multiplier is 1.0, 0.8, 0.6, 0.4 for CRITICAL, HIGH, MEDIUM, LOW (the   *)
(* sums taken as the real numbers the floats stand for).                   *)
(***************************************************************************)
C21_FinalScoreIsWeightedSum ==
    [][(ProcessedOne /\ AvailableIndexes # {}) =>
          /\ NewRecord.workload_factor
                 = SpareCapacity(agent_workloads[NewRecord.assigned_agent_id])
          /\ RLeq(Rat(0, 1), NewRecord.workload_factor)
          /\ RLeq(NewRecord.workload_factor, Rat(1, 1))
          /\ NewRecord.final_score
                 = WeightedSum(NewRecord.skill_match_score,
                               NewRecord.workload_factor,
                               CappedExperience(
                                   dataset.agents[AgentNamed(NewRecord)].experience_level),
                               MultiplierOf(NewRecord.priority_level))]_vars

\* A run in which one record was scored with an idle agent (factor 1), one
\* with a saturated agent (factor 0), at two different priority levels.
C21_Witness ==
    /\ AvailableIndexes # {}
    /\ \E i, j \in DOMAIN assignments :
           /\ assignments[i].workload_factor = Rat(1, 1)
           /\ assignments[j].workload_factor = Rat(0, 1)
           /\ assignments[i].priority_level # assignments[j].priority_level
           /\ RLess(Rat(0, 1), assignments[j].skill_match_score)

(***************************************************************************)
(* C22: the commit of one ticket changes the scoring of the next.  When    *)
(* two tickets with identical text are processed one after the other, and  *)
(* the Available agents are at least two, all with identical skills,       *)
(* identical experience and, before the first of the two tickets, equal    *)
(* workload counters below 8, the two tickets go to different agents.      *)
(***************************************************************************)
\* The counter of an agent before the latest record was committed.
CounterBeforeLast(agent_id) ==
    IF agent_id = assignments[Len(assignments)].assigned_agent_id
    THEN agent_workloads[agent_id] - 1
    ELSE agent_workloads[agent_id]

AvailableAgentsAlike ==
    \A i, j \in AvailableIndexes :
        /\ dataset.agents[i].skills = dataset.agents[j].skills
        /\ dataset.agents[i].experience_level = dataset.agents[j].experience_level

C22_CommitChangesNextScoring ==
    [][(/\ ProcessedOne
        /\ Len(assignments) >= 1
        /\ TextOf(NewTicket) = TextOf(prioritized_tickets[Len(assignments)])
        /\ Cardinality(AvailableIndexes) >= 2
        /\ AvailableAgentsAlike
        /\ \A i, j \in AvailableIndexes :
               /\ CounterBeforeLast(dataset.agents[i].agent_id)
                      = CounterBeforeLast(dataset.agents[j].agent_id)
               /\ CounterBeforeLast(dataset.agents[i].agent_id) < 8)
          => NewRecord.assigned_agent_id
                 # assignments[Len(assignments)].assigned_agent_id]_vars

\* Two like agents with equal initial loads have received the first two
\* tickets, which have the same text, one each.
C22_Witness ==
    /\ Cardinality(AvailableIndexes) = 2
    /\ AvailableAgentsAlike
    /\ \A i, j \in AvailableIndexes :
           /\ dataset.agents[i].current_load = dataset.agents[j].current_load
           /\ dataset.agents[i].current_load < 8
    /\ Len(assignments) = 2
    /\ TextOf(prioritized_tickets[1]) = TextOf(prioritized_tickets[2])
    /\ assignments[1].assigned_agent_id # assignments[2].assigned_agent_id

(***************************************************************************)
(* C23: allocation never backtracks.  While a call runs, a step never      *)
(* changes, removes or reorders a record that is already in the list, the  *)
(* list that is returned is the list as the loop left it (so the list      *)
(* after k tickets is a prefix of the output), and the record of a ticket  *)
(* is the one _assign_single_ticket gives for the initial loads plus one   *)
(* per earlier record of each agent: it depends on the earlier tickets     *)
(* only.                                                                   *)
(***************************************************************************)
\* The counters that the dataset's loads and the given records account for.
WorkloadsAfter(records) ==
    [id \in DOMAIN InitialWorkloads(dataset.agents) |->
        InitialWorkloads(dataset.agents)[id]
            + Cardinality({i \in DOMAIN records : records[i].assigned_agent_id = id})]

C23_NoBacktracking ==
    [][pc = "loop" =>
          /\ Len(assignments') >= Len(assignments)
          /\ SubSeq(assignments', 1, Len(assignments)) = assignments
          /\ ProcessedOne =>
                 NewRecord = _assign_single_ticket(NewTicket, dataset.agents,
                                                   WorkloadsAfter(assignments))
          /\ (Len(outcomes') > Len(outcomes)
                  /\ outcomes'[Len(outcomes')].kind = "returned")
                 => outcomes'[Len(outcomes')].assignments = assignments]_vars

\* A call has returned three records that do not all name the same agent.
C23_Witness ==
    /\ pc = "idle"
    /\ outcomes # <<>>
    /\ outcomes[Len(outcomes)].kind = "returned"
    /\ Len(outcomes[Len(outcomes)].assignments) = 3
    /\ outcomes[Len(outcomes)].assignments[1].assigned_agent_id
           # outcomes[Len(outcomes)].assignments[3].assigned_agent_id

(***************************************************************************)
(* C24: matched_keywords holds one entry for every (level table, keyword)  *)
(* pair whose keyword occurs in the text, in table order CRITICAL, HIGH,   *)
(* MEDIUM, LOW and without deduplication; each entry adds its keyword's    *)
(* weight to the raw sum of its level exactly once, however often the      *)
(* keyword occurs in the text, and a keyword contained in a longer         *)
(* matching keyword ('down' in 'server down') is counted as well.          *)
(***************************************************************************)
\* The indexes of the occurring keywords of every level's table.
OccurringByLevel(full_text) ==
    [l \in Levels |-> Occurring(urgency_keywords[l], full_text)]

\* Where the entries of a level start in matched_keywords, and the place of
\* the level's i-th keyword among them.
EntriesBefore(occurring, level) ==
    IF level = "CRITICAL" THEN 0
    ELSE IF level = "HIGH" THEN Cardinality(occurring.CRITICAL)
    ELSE IF level = "MEDIUM"
    THEN Cardinality(occurring.CRITICAL) + Cardinality(occurring.HIGH)
    ELSE Cardinality(occurring.CRITICAL) + Cardinality(occurring.HIGH)
             + Cardinality(occurring.MEDIUM)

PlaceOf(occurring, level, i) ==
    EntriesBefore(occurring, level) + Cardinality({j \in occurring[level] : j <= i})

\* The weight, in tenths, the table of a level gives a keyword.
WeightIn(level, keyword) ==
    urgency_keywords[level][CHOOSE i \in 1..Len(urgency_keywords[level]) :
                                urgency_keywords[level][i][1] = keyword][2]

RECURSIVE SumOfEntryWeights(_, _, _, _)
SumOfEntryWeights(matched_keywords, level, first, last) ==
    IF first > last THEN 0
    ELSE WeightIn(level, matched_keywords[last])
             + SumOfEntryWeights(matched_keywords, level, first, last - 1)

MatchedKeywordsAsTables(result, occurring, multiplier) ==
    /\ Len(result.matched_keywords)
           = EntriesBefore(occurring, "LOW") + Cardinality(occurring.LOW)
    /\ \A l \in Levels : \A i \in occurring[l] :
           result.matched_keywords[PlaceOf(occurring, l, i)] = urgency_keywords[l][i][1]
    /\ result.priority_score
           = RMul(Rat(SumOfEntryWeights(result.matched_keywords, result.priority_level,
                          EntriesBefore(occurring, result.priority_level) + 1,
                          EntriesBefore(occurring, result.priority_level)
                              + Cardinality(occurring[result.priority_level])), 10),
                  multiplier)

MatchedKeywordsOf(result, full_text) ==
    MatchedKeywordsAsTables(result, OccurringByLevel(full_text),
                            LargestMultiplier(full_text))

C24_MatchedKeywordsInTableOrder ==
    AnalyzedLast =>
        MatchedKeywordsOf(LastCall.result, FullText(LastCall.title, LastCall.description))

\* The first example ticket: 'down' occurs twice in it, once inside
\* 'server down', and both keywords are entries.
C24_Witness ==
    /\ AnalyzedText(SpecificExamples[1])
    /\ LastCall.result.matched_keywords = <<"down", "server down">>
    /\ LastCall.result.priority_score = Rat(475, 10)

(***************************************************************************)
(* C25: a keyword or impact phrase matches a text only as whole words,     *)
(* case-insensitively: it matches when it occurs in the text, in any       *)
(* letter case, with no letter, digit or underscore right before or right  *)
(* after it, and it does not match when it occurs only inside a longer     *)
(* word ('need' in 'needs').  Stated for the keywords analyze_priority     *)
(* reports, for the impact phrase that scales its score, and for the skill *)
(* keywords that make _calculate_skill_match give a score above 0.         *)
(***************************************************************************)
\* kw stands in text at offset i with no word character next to it.
StandsAloneAt(kw, text, i) ==
    /\ SubSeq(text, i, i + Len(kw) - 1) = kw
    /\ i > 1 => Char(text, i - 1) \notin WordChars
    /\ i + Len(kw) <= Len(text) => Char(text, i + Len(kw)) \notin WordChars

StandsAloneSomewhere(lowered_kw, lowered_text) ==
    \E i \in 1..(Len(lowered_text) - Len(lowered_kw) + 1) :
        StandsAloneAt(lowered_kw, lowered_text, i)

StandsAlone(kw, lowered_text) ==
    StandsAloneSomewhere(lower(kw), lowered_text)

\* The indexes of the entries of a table whose keyword or phrase stands alone
\* in the text.
StandingAlone(table, lowered_text) ==
    {i \in 1..Len(table) : StandsAlone(table[i][1], lowered_text)}

StandingAloneByLevel(lowered_text) ==
    [l \in Levels |-> StandingAlone(urgency_keywords[l], lowered_text)]

ReportedKeywords(result) ==
    {result.matched_keywords[p] : p \in DOMAIN result.matched_keywords}

\* The largest multiplier, in tenths, among the given impact phrases, 10
\* when there is none.
LargestAmong(phrases) ==
    IF phrases = {} THEN 10
    ELSE CHOOSE m \in {impact_multipliers[i][2] : i \in phrases} :
             \A i \in phrases : impact_multipliers[i][2] <= m

KeywordsMatchAsWords(result, reported, alone, phrases) ==
    /\ \A l \in Levels :
           alone[l] = {i \in 1..Len(urgency_keywords[l]) :
                          urgency_keywords[l][i][1] \in reported}
    /\ result.priority_score
           = RMul(Rat(SumOfTenths(urgency_keywords[result.priority_level],
                                  alone[result.priority_level]), 10),
                  Rat(LargestAmong(phrases), 10))

AnalyzedAsWords(result, lowered_text) ==
    KeywordsMatchAsWords(result, ReportedKeywords(result),
                         StandingAloneByLevel(lowered_text),
                         StandingAlone(impact_multipliers, lowered_text))

SkillKeywordsMatchAsWords(skills, result, lowered_text) ==
    result.n > 0
        <=> \E k \in DOMAIN skills :
                \E kw \in ConfiguredKeywords(skills[k][1]) :
                    StandsAlone(kw, lowered_text)

C25_KeywordsMatchWholeWords ==
    /\ AnalyzedLast =>
           AnalyzedAsWords(LastCall.result,
                           lower(LastCall.title \o " " \o LastCall.description))
    /\ ScoredLast =>
           SkillKeywordsMatchAsWords(LastCall.agent.skills, LastCall.result,
               lower(LastCall.ticket.title \o " " \o LastCall.ticket.description))

\* The third example ticket: 'How to' is matched by the keyword 'how to',
\* and the keyword 'need' is not matched by 'needs'.
C25_Witness ==
    /\ AnalyzedText(SpecificExamples[3])
    /\ LastCall.result.matched_keywords = <<"help", "how to", "setup">>
    /\ \E i \in 1..Len(urgency_keywords.MEDIUM) : urgency_keywords.MEDIUM[i][1] = "need"
    /\ Contains(lower(LastCall.description), "need")

(***************************************************************************)
(* C26: the impact multiplier never changes which level analyze_priority   *)
(* returns: for any text the returned level is the level that would be     *)
(* returned with the multiplier fixed at 1.0, and the returned             *)
(* priority_score is the score returned then, scaled by 1.0 or by one of   *)
(* the multipliers of the impact table.                                    *)
(***************************************************************************)
\* What analyze_priority returns for the matched keywords when the
\* multiplier stays 1.0.
Unscaled(matched) ==
    WinningResult(matched, FinalScores(matched, Rat(1, 1)))

Multipliers ==
    {Rat(10, 10)} \cup {Rat(impact_multipliers[i][2], 10) : i \in 1..Len(impact_multipliers)}

ScaledOnly(result, unscaled) ==
    /\ result.priority_level = unscaled.priority_level
    /\ result.matched_keywords = unscaled.matched_keywords
    /\ \E m \in Multipliers : result.priority_score = RMul(unscaled.priority_score, m)

C26_MultiplierKeepsLevel ==
    AnalyzedLast =>
        ScaledOnly(LastCall.result,
                   Unscaled(MatchedByLevel(FullText(LastCall.title, LastCall.description))))

\* A text with an impact phrase and keywords of two levels, the less urgent
\* of which wins.
C26_Witness ==
    /\ AnalyzedLast
    /\ RLess(Rat(1, 1), LargestMultiplier(FullText(LastCall.title, LastCall.description)))
    /\ LastScores.CRITICAL.n > 0
    /\ LastCall.result.priority_level = "HIGH"

(***************************************************************************)
(* The part of the composite score that differs between the candidates of  *)
(* one ticket: 0.4 * skill + 0.25 * workload_factor + 0.2 * experience     *)
(* bonus, as a real number, under the counters as they stand when the      *)
(* ticket is processed.                                                    *)
(***************************************************************************)
PartialSum(ticket, agent) ==
    WeightedSum(SkillMatchOf(ticket, agent),
                SpareCapacity(agent_workloads[agent.agent_id]),
                CappedExperience(agent.experience_level),
                Rat(0, 1))

(***************************************************************************)
(* C27 as claimed: the priority term never changes which agent is          *)
(* selected; the selected agent is the first agent in list order that      *)
(* maximises 0.4 * skill + 0.25 * workload_factor + 0.2 * experience_bonus *)
(* among the Available agents.                                             *)
(***************************************************************************)
C27_SelectedIsFirstPartialMaximum ==
    [][(ProcessedOne /\ AvailableIndexes # {}) =>
          \A k \in AvailableIndexes :
              /\ RLeq(PartialSum(NewTicket, dataset.agents[k]),
                      PartialSum(NewTicket, dataset.agents[AgentNamed(NewRecord)]))
              /\ k < AgentNamed(NewRecord) =>
                     RLess(PartialSum(NewTicket, dataset.agents[k]),
                           PartialSum(NewTicket, dataset.agents[AgentNamed(NewRecord)]))]_vars

(***************************************************************************)
(* C27 as amended: the selected agent is one of the Available agents that  *)
(* maximise 0.4 * skill + 0.25 * workload_factor + 0.2 * experience_bonus, *)
(* but not always the first of them: an earlier agent with the same sum    *)
(* is passed over exactly when the double-precision total of the later     *)
(* one, priority term included, is strictly larger.                        *)
(***************************************************************************)
C27_SelectedIsAPartialMaximum ==
    [][(ProcessedOne /\ AvailableIndexes # {}) =>
          \A k \in AvailableIndexes :
              /\ RLeq(PartialSum(NewTicket, dataset.agents[k]),
                      PartialSum(NewTicket, dataset.agents[AgentNamed(NewRecord)]))
              /\ (/\ k < AgentNamed(NewRecord)
                  /\ PartialSum(NewTicket, dataset.agents[k])
                         = PartialSum(NewTicket, dataset.agents[AgentNamed(NewRecord)]))
                     => DLess(FloatCompositeScore(NewTicket, dataset.agents[k],
                                                  agent_workloads),
                              FloatCompositeScore(NewTicket,
                                                  dataset.agents[AgentNamed(NewRecord)],
                                                  agent_workloads))]_vars

\* The two agents with equal sums have been offered the routine ticket, and
\* the second one has got it.
C27_Witness ==
    /\ dataset.agents = TiedAgents
    /\ Len(assignments) = 1
    /\ assignments[1].priority_level # "CRITICAL"
    /\ assignments[1].assigned_agent_id = TiedAgents[2].agent_id
    /\ WeightedSum(SkillMatchOf(prioritized_tickets[1], TiedAgents[1]), Rat(1, 1),
                   CappedExperience(TiedAgents[1].experience_level), Rat(0, 1))
           = WeightedSum(SkillMatchOf(prioritized_tickets[1], TiedAgents[2]), Rat(1, 1),
                         CappedExperience(TiedAgents[2].experience_level), Rat(0, 1))

(***************************************************************************)
(* C28: of two Available agents with the same skill score for a ticket and *)
(* the same experience level, the allocator never selects the one with the *)
(* strictly larger workload counter when the smaller counter is below 8;   *)
(* when both counters are 8 or more, the one earlier in the agent list is  *)
(* preferred whatever its counter, so saturated agents still receive       *)
(* tickets.                                                                *)
(***************************************************************************)
\* The skill scores as _calculate_skill_match returns them (doubles).
FloatSkillTable ==
    [t \in DOMAIN PriorityTable,
     s \in {AgentProfiles[i].skills : i \in 1..Len(AgentProfiles)} |->
        FloatSkillMatch(t, [skills |-> s])]

FloatSkillMatchOf(ticket, agent) ==
    IF <<TextOf(ticket), agent.skills>> \in DOMAIN FloatSkillTable
    THEN FloatSkillTable[TextOf(ticket), agent.skills]
    ELSE FloatSkillMatch(ticket, agent)

\* Agents k and s score the same on skill and experience for the ticket.
SameSkillAndExperience(ticket, k, s) ==
    /\ FloatSkillMatchOf(ticket, dataset.agents[k])
           = FloatSkillMatchOf(ticket, dataset.agents[s])
    /\ dataset.agents[k].experience_level = dataset.agents[s].experience_level

CounterOf(k) ==
    agent_workloads[dataset.agents[k].agent_id]

C28_LighterOfLikeAgentsPreferred ==
    [][(ProcessedOne /\ AvailableIndexes # {}) =>
          \A k \in AvailableIndexes \ {AgentNamed(NewRecord)} :
              SameSkillAndExperience(NewTicket, k, AgentNamed(NewRecord)) =>
                  /\ ~(CounterOf(k) < 8 /\ CounterOf(k) < CounterOf(AgentNamed(NewRecord)))
                  /\ (CounterOf(k) >= 8 /\ CounterOf(AgentNamed(NewRecord)) >= 8)
                         => AgentNamed(NewRecord) < k]_vars

\* Two like agents, both at 8 tickets when the third ticket came: the first
\* of them has got it.
C28_Witness ==
    /\ Cardinality(AvailableIndexes) = 2
    /\ AvailableAgentsAlike
    /\ Len(assignments) = 3
    /\ assignments[3].assigned_agent_id = dataset.agents[1].agent_id
    /\ assignments[3].workload_factor = Rat(0, 1)
    /\ agent_workloads[dataset.agents[1].agent_id] = 9
    /\ agent_workloads[dataset.agents[2].agent_id] = 8

(***************************************************************************)
(* C29: every candidate's composite score lies in [0.06, 1.0] and is       *)
(* therefore above the initial best score of -1; so whenever at least one  *)
(* agent is Available the agent is chosen by scoring and the 'first        *)
(* available agent ... no strong skill matches' branch is never taken; a   *)
(* final_score of -1, with skill_match_score 0 and workload_factor 0,      *)
(* appears in a record exactly when the record is an empty-pool fallback.  *)
(***************************************************************************)
CandidateScoresInRange(ticket) ==
    \A k \in AvailableIndexes :
        /\ RLeq(Rat(6, 100), CompositeScore(ticket, dataset.agents[k], agent_workloads))
        /\ RLeq(CompositeScore(ticket, dataset.agents[k], agent_workloads), Rat(1, 1))
        /\ DLess(DFromInt(-1),
                 FloatCompositeScore(ticket, dataset.agents[k], agent_workloads))

FirstAvailableText(name) ==
    "Assigned to " \o name \o " (first available agent) due to no strong skill matches."

EmergencyText ==
    "Emergency assignment - no available agents found."

ChosenByScoring(record) ==
    /\ \A k \in DOMAIN dataset.agents :
           record.rationale # FirstAvailableText(dataset.agents[k].name)
    /\ record.rationale # EmergencyText
    /\ RLeq(Rat(6, 100), record.final_score)
    /\ RLeq(record.final_score, Rat(1, 1))

EmptyPoolFallback(record) ==
    /\ record.rationale = EmergencyText
    /\ record.final_score = Rat(-1, 1)
    /\ record.skill_match_score = Rat(0, 1)
    /\ record.workload_factor = Rat(0, 1)

C29_ScoredUnlessPoolEmpty ==
    [][ProcessedOne =>
          /\ CandidateScoresInRange(NewTicket)
          /\ AvailableIndexes # {} => ChosenByScoring(NewRecord)
          /\ AvailableIndexes = {} => EmptyPoolFallback(NewRecord)
          /\ NewRecord.final_score = Rat(-1, 1) <=> AvailableIndexes = {}]_vars

\* A record with skill score 0 and workload factor 0, like a fallback
\* record, that was chosen by scoring: a saturated agent without a matching
\* skill.
C29_Witness ==
    /\ AvailableIndexes # {}
    /\ \E i \in DOMAIN assignments :
           /\ assignments[i].skill_match_score = Rat(0, 1)
           /\ assignments[i].workload_factor = Rat(0, 1)
           /\ RLess(Rat(0, 1), assignments[i].final_score)

(***************************************************************************)
(* C30: the candidate pool is the same for every ticket of a run, because  *)
(* the allocator never changes availability: within one assign_tickets     *)
(* call either every record is an empty-pool fallback record or none is.   *)
(***************************************************************************)
IsEmptyPoolRecord(record) ==
    record.rationale = EmergencyText /\ record.final_score = Rat(-1, 1)

C30_AllRecordsFallbackOrNone ==
    \A records \in RecordLists :
        \/ \A i \in DOMAIN records : IsEmptyPoolRecord(records[i])
        \/ \A i \in DOMAIN records : ~IsEmptyPoolRecord(records[i])

\* A call on a list of agents none of whom is Available has returned three
\* records, all of them fallback records.
C30_Witness ==
    /\ dataset.agents # <<>>
    /\ outcomes # <<>>
    /\ outcomes[1].kind = "returned"
    /\ Len(outcomes[1].assignments) = 3
    /\ \A i \in 1..3 : IsEmptyPoolRecord(outcomes[1].assignments[i])

=============================================================================
